---------------------------- MODULE Spec2Model ----------------------------
(***************************************************************************)
(* State-machine model of the tracking, matching and payment               *)
(* de-duplication code of the AI video analysis system:                    *)
(*   detection_logic.py          detect_persons    (detect mode)           *)
(*   identification_logic.py     identify_persons  (identify mode)         *)
(*   mixed_detection_logic.py    mixed_detection_identification            *)
(*   payment_detection_logic.py  detect_payments                           *)
(* Pixel coordinates are integers.  Similarities and confidences are       *)
(* hundredths (0.7 is 70).  Distances are compared through the squared     *)
(* doubled centre distance (4*d^2), which orders exactly as np.sqrt does.  *)
(***************************************************************************)
EXTENDS Integers, Sequences, FiniteSets, TLC

VARIABLES
    mode,               \* which frame loop this session runs
    person_registry,    \* dict person_id -> {box, frame_count, last_seen[, type]}, in insertion order
    frame_counter,      \* frame_counter of the person frame loops
    detection_counter,  \* detection_counter of the person frame loops
    next_id,            \* number of ids generate_person_id has handed out
    last,               \* outcome of the most recent person detection
    library,            \* stored reference images: [top, session, pid, img]
    saved,              \* frames written by this session: [top, pid, frame]
    known_faces,        \* mixed mode: the dict loaded before the frame loop
    video,              \* payment mode: the video, as the detections left by NMS in each frame
    pc,                 \* payment mode: "start", "loop" while frames are read, "done" after the report
    current_frame,      \* payment mode: CAP_PROP_POS_FRAMES after the read
    tracked_centroids,  \* payment mode: center_key -> (cls_id, frame, confidence)
    payment_events,     \* payment mode: raw events in order of registration
    filtered_events,    \* payment mode: events kept by the post-processing pass
    first_cash_detected,
    first_card_detected,
    cash_payments,
    card_payments,
    payment_type,
    stop_processing,    \* st.session_state.stop_processing
    processing_state,   \* the processing_state_<session>.json file of this session
    now,                \* time.time(), in seconds since the session was dispatched
    pending_processing, \* st.session_state.pending_processing: where the dict came from
    report,             \* what the session has told the user at its end
    cloud,              \* supabase_manager.is_connected()
    video_hashes,       \* st.session_state.video_hashes: session id -> hash, as a set of pairs
    cloud_sessions,     \* the session rows of the cloud store: session id and video hash
    upload,             \* the upload being handled: session id and video hash
    processed           \* history: how far detect mode has got with each video hash

vars == <<mode, person_registry, frame_counter, detection_counter, next_id, last,
          library, saved, known_faces, video, pc, current_frame, tracked_centroids,
          payment_events, filtered_events, first_cash_detected, first_card_detected,
          cash_payments, card_payments, payment_type,
          stop_processing, processing_state, now, pending_processing, report,
          cloud, video_hashes, cloud_sessions, upload, processed>>

personVars == <<mode, person_registry, frame_counter, detection_counter, next_id, last,
                library, saved, known_faces>>

paymentVars == <<video, pc, current_frame, tracked_centroids, payment_events,
                 filtered_events, first_cash_detected, first_card_detected,
                 cash_payments, card_payments, payment_type>>

sessionVars == <<stop_processing, processing_state, now, pending_processing, report>>

uploadVars == <<cloud, video_hashes, cloud_sessions, upload, processed>>

-----------------------------------------------------------------------------
(* Bounds of the model *)

\* person detections examined in one video
MaxDetections == 7
\* last frame index of the person frame loops
MaxFrame == 93

(* Program constants *)

\* detection_logic.py: len(person_registry) < 6
MaxTracks == 6
\* detection_logic.py: slider "Max Proximity Distance (pixels)", default
max_distance == 50
\* detection_logic.py: slider "Max Frame Gap", default
max_frame_gap == 30

-----------------------------------------------------------------------------
(* Geometry *)

Abs(n) == IF n < 0 THEN 0 - n ELSE n

Box(x1, y1, x2, y2) == <<x1, y1, x2, y2>>

\* person boxes the detector reports: three 10x10 boxes on one line, their
\* centres 70 px (A-B), 60 px (B-C) and 130 px (A-C) apart, so that no two
\* are within max_distance, and a box only 2 px high
BoxA == Box(0, 0, 10, 10)
BoxB == Box(70, 0, 80, 10)
BoxC == Box(130, 0, 140, 10)
BoxFlat == Box(0, 0, 10, 2)
Boxes == {BoxA, BoxB, BoxC, BoxFlat}

ValidBox(b) == b[1] < b[3] /\ b[2] < b[4]

\* crop_head: rows y1 .. y1 + int(h * 0.4), columns x1 .. x2; the value is
\* head_crop.size (rows * columns) for a box inside the frame
crop_head_size(b) == (((b[4] - b[2]) * 4) \div 10) * (b[3] - b[1])

\* box_distance of detection_logic.py: (2*cx1 - 2*cx2)^2 + (2*cy1 - 2*cy2)^2 = 4 * distance^2
box_distance4(b1, b2) ==
    LET dx == (b1[1] + b1[3]) - (b2[1] + b2[3])
        dy == (b1[2] + b1[4]) - (b2[2] + b2[4])
    IN  dx * dx + dy * dy

\* distance <= limit, limit in pixels
WithinDistance(d4, limit) == d4 <= 4 * limit * limit


-----------------------------------------------------------------------------
(* Person ids.  A folder name is a sequence of prefixes in front of a      *)
(* generated token; generate_person_id returns tokens that are new.        *)

Pid(pre, n) == [pre |-> pre, n |-> n]

NoPid == Pid(<<"none">>, 0)

\* generate_person_id: the k-th token handed out in this session
generate_person_id(k) == Pid(<<>>, 100 + k)

-----------------------------------------------------------------------------
(* The registry: a dict in insertion order, modelled as a sequence *)

Track(pid, box, f) == [pid |-> pid, box |-> box, frame_count |-> 1, last_seen |-> f]

IndexOf(reg, pid) ==
    IF \E i \in 1..Len(reg) : reg[i].pid = pid
    THEN CHOOSE i \in 1..Len(reg) : reg[i].pid = pid
    ELSE 0

\* person_registry[pid]["box"] = current_box; ["frame_count"] += 1; ["last_seen"] = frame_counter
UpdateTrackNoBox(reg, i, box, f) ==
    [reg EXCEPT ![i] = [@ EXCEPT !.frame_count = @ + 1, !.last_seen = f]]

\* the same update without the appearance count
UpdateTrackNoCount(reg, i, box, f) ==
    [reg EXCEPT ![i] = [@ EXCEPT !.box = box, !.last_seen = f]]

\* the same update with last_seen set back to the first frame
UpdateTrackFirstFrame(reg, i, box, f) ==
    [reg EXCEPT ![i] = [@ EXCEPT !.box = box, !.frame_count = @ + 1, !.last_seen = 0]]

UpdateTrack(reg, i, box, f) ==
    [reg EXCEPT ![i] = [@ EXCEPT !.box = box, !.frame_count = @ + 1, !.last_seen = f]]

\* the same test with one frame more
WithinGapLoose(f, seen) == f - seen <= max_frame_gap + 1

\* the staleness test of the matching loop
WithinGap(f, seen) == f - seen <= max_frame_gap

\* the loop over person_registry.items(): best_match_id and min_distance,
\* as an index into the registry (0 is None) and 4*distance^2 (-1 is inf)
RECURSIVE BestMatchFrom(_, _, _, _, _, _)
BestMatchFrom(reg, i, box, f, best, min4) ==
    IF i > Len(reg) THEN [id |-> best, dist4 |-> min4]
    ELSE LET d4 == box_distance4(box, reg[i].box)
         IN  IF (min4 = -1 \/ d4 < min4) /\ WithinGap(f, reg[i].last_seen)
             THEN BestMatchFrom(reg, i + 1, box, f, i, d4)
             ELSE BestMatchFrom(reg, i + 1, box, f, best, min4)

BestMatch(reg, box, f) == BestMatchFrom(reg, 1, box, f, 0, -1)

\* min(person_registry.keys(), key=box_distance to current_box): the first
\* key of minimum distance, over every track
RECURSIVE NearestFrom(_, _, _, _)
NearestFrom(reg, i, box, best) ==
    IF i > Len(reg) THEN best
    ELSE IF best = 0 \/ box_distance4(box, reg[i].box) < box_distance4(box, reg[best].box)
         THEN NearestFrom(reg, i + 1, box, i)
         ELSE NearestFrom(reg, i + 1, box, best)

\* the same scan keeping the last key of minimum distance
RECURSIVE NearestFromLast(_, _, _, _)
NearestFromLast(reg, i, box, best) ==
    IF i > Len(reg) THEN best
    ELSE IF best = 0 \/ box_distance4(box, reg[i].box) <= box_distance4(box, reg[best].box)
         THEN NearestFromLast(reg, i + 1, box, i)
         ELSE NearestFromLast(reg, i + 1, box, best)

NearestOfAllLast(reg, box) == NearestFromLast(reg, 1, box, 0)

NearestOfAll(reg, box) == NearestFrom(reg, 1, box, 0)

\* len(person_registry) < 6
BelowCapLoose(reg) == Len(reg) <= MaxTracks

BelowCap(reg) == Len(reg) < MaxTracks

\* the same test with the distance bound exclusive
ProximityMatchStrict(m) == m.id # 0 /\ m.dist4 < 4 * max_distance * max_distance

\* if best_match_id and min_distance <= max_distance
ProximityMatch(m) == m.id # 0 /\ WithinDistance(m.dist4, max_distance)

\* detect_persons, the body of "for det in results[0].boxes.data" for one
\* person box: the registry after it, the person_id it ends with, the branch
DetectAssign(reg, box, f, k) ==
    LET m == BestMatch(reg, box, f)
    IN  IF ProximityMatch(m)
        THEN [reg |-> UpdateTrack(reg, m.id, box, f), pid |-> reg[m.id].pid,
              branch |-> "proximity", made |-> 0]
        ELSE IF BelowCap(reg)
        THEN [reg |-> Append(reg, Track(generate_person_id(k + 1), box, f)),
              pid |-> generate_person_id(k + 1), branch |-> "new", made |-> 1]
        ELSE IF m.id # 0
        THEN [reg |-> UpdateTrack(reg, m.id, box, f), pid |-> reg[m.id].pid,
              branch |-> "forced_best", made |-> 0]
        ELSE LET n == NearestOfAll(reg, box)
             IN  [reg |-> UpdateTrack(reg, n, box, f), pid |-> reg[n].pid,
                  branch |-> "forced_nearest", made |-> 0]

Outcome(box, pid, branch, f) == [box |-> box, pid |-> pid, branch |-> branch, frame |-> f]

-----------------------------------------------------------------------------
(* Detect mode: detect_persons *)

\* one person box of the current frame
DetectPerson(box) ==
    /\ mode = "detect"
    /\ detection_counter < MaxDetections
    /\ IF crop_head_size(box) = 0
       THEN \* head_crop.size == 0: continue
            /\ last' = Outcome(box, NoPid, "skipped", frame_counter)
            /\ UNCHANGED <<person_registry, detection_counter, next_id>>
       ELSE LET r == DetectAssign(person_registry, box, frame_counter, next_id)
            IN  /\ person_registry' = r.reg
                /\ next_id' = next_id + r.made
                /\ detection_counter' = detection_counter + 1
                /\ last' = Outcome(box, r.pid, r.branch, frame_counter)
    /\ UNCHANGED <<mode, frame_counter, library, saved, known_faces>>
    /\ UNCHANGED paymentVars
    /\ UNCHANGED sessionVars
    /\ UNCHANGED uploadVars

\* the end of one iteration of the frame loop: frame_counter += 1
NextFrame ==
    /\ mode \in {"detect", "identify", "mixed"}
    /\ frame_counter < MaxFrame
    /\ frame_counter' = frame_counter + 1
    /\ UNCHANGED <<mode, person_registry, detection_counter, next_id, last,
                   library, saved, known_faces>>
    /\ UNCHANGED paymentVars
    /\ UNCHANGED sessionVars
    /\ UNCHANGED uploadVars

\* max_frame_gap + 1 iterations in a row in which the detector reports no
\* person: each of them only adds 1 to frame_counter
EmptyFrames ==
    /\ mode \in {"detect", "identify", "mixed"}
    /\ frame_counter + max_frame_gap + 1 <= MaxFrame
    /\ frame_counter' = frame_counter + max_frame_gap + 1
    /\ UNCHANGED <<mode, person_registry, detection_counter, next_id, last,
                   library, saved, known_faces>>
    /\ UNCHANGED paymentVars
    /\ UNCHANGED sessionVars
    /\ UNCHANGED uploadVars

PaymentIdle ==
    /\ video = [kind |-> "none", len |-> 0]
    /\ pc = "idle"
    /\ current_frame = 0
    /\ tracked_centroids = <<>>
    /\ payment_events = <<>>
    /\ filtered_events = <<>>
    /\ first_cash_detected = FALSE
    /\ first_card_detected = FALSE
    /\ cash_payments = 0
    /\ card_payments = 0
    /\ payment_type = "None"

\* no processing state file
NoState == [saved |-> FALSE, timestamp |-> 0]

\* the session state of a session that has just been dispatched from an upload
SessionIdle ==
    /\ stop_processing = FALSE
    /\ processing_state = NoState
    /\ now = 0
    /\ pending_processing = "upload"
    /\ report = "none"

\* no upload recorded
NoUpload == [session |-> 0, hash |-> "none"]

\* the videos that can be uploaded, by their content hash
VideoHashes == {"h1", "h2"}

\* the upload state of a session whose routing is not followed
UploadIdle ==
    /\ cloud = FALSE
    /\ video_hashes = {}
    /\ cloud_sessions = {}
    /\ upload = NoUpload
    /\ processed = [h \in VideoHashes |-> "never"]

InitDetect ==
    /\ mode = "detect"
    /\ person_registry = <<>>
    /\ frame_counter = 0
    /\ detection_counter = 0
    /\ next_id = 0
    /\ last = Outcome(BoxA, NoPid, "init", 0)
    /\ library = {}
    /\ saved = {}
    /\ known_faces = <<>>
    /\ PaymentIdle
    /\ SessionIdle
    /\ UploadIdle

NextDetect ==
    \/ \E box \in Boxes : DetectPerson(box)
    \/ EmptyFrames

SpecDetect == InitDetect /\ [][NextDetect]_vars


-----------------------------------------------------------------------------
(* Claims about detect mode, checked under SpecDetect *)

\* the tracks that the matching loop may select in frame f
FreshTracks(reg, f) == {i \in 1..Len(reg) : f - reg[i].last_seen <= max_frame_gap}

\* the first index of idxs at minimum centre distance from box
FirstNearest(reg, idxs, box) ==
    CHOOSE i \in idxs : \A j \in idxs :
        \/ box_distance4(box, reg[i].box) < box_distance4(box, reg[j].box)
        \/ box_distance4(box, reg[i].box) = box_distance4(box, reg[j].box) /\ i <= j

\* the most recent detection is held by exactly one track, with its box
LastAssigned ==
    /\ Cardinality({i \in 1..Len(person_registry) : person_registry[i].pid = last.pid}) = 1
    /\ \A i \in 1..Len(person_registry) :
          person_registry[i].pid = last.pid =>
              /\ person_registry[i].box = last.box
              /\ person_registry[i].last_seen = last.frame

\* this step examined a person box whose head crop was not empty
DetectionStep == detection_counter' = detection_counter + 1

\* C1: in detect mode the registry never holds more than 6 Tracks.
C1_TrackCap == mode = "detect" => Len(person_registry) <= MaxTracks

\* a seventh detection was examined while the registry held 6 Tracks
C1_Witness ==
    /\ mode = "detect"
    /\ Len(person_registry) = MaxTracks
    /\ detection_counter > MaxTracks

\* C2 as stated: every person Detection with a valid box (x1<x2, y1<y2) is
\* assigned to exactly one Track, whatever the size of the box.
C2_Original ==
    (mode = "detect" /\ last.branch # "init" /\ ValidBox(last.box)) => LastAssigned

\* C2 as amended: every person Detection with a valid box whose head crop
\* (the top int(0.4*h) rows of the box) is not empty is assigned to exactly
\* one Track, which then holds the Detection's box; a box less than 3 px
\* high has an empty head crop and is skipped.
C2_NonEmptyCropAssigned ==
    (mode = "detect" /\ last.branch # "init" /\ ValidBox(last.box)) =>
        IF crop_head_size(last.box) > 0
        THEN LastAssigned
        ELSE last.pid = NoPid /\ last.branch = "skipped"

\* a detection arriving when the registry is full and every Track is stale
\* was assigned to a Track
C2_Witness ==
    /\ mode = "detect"
    /\ last.branch = "forced_nearest"
    /\ ValidBox(last.box)
    /\ LastAssigned

\* C3 as stated: with 6 Tracks and no Track within the proximity threshold
\* of the Detection, no 7th Track is created and the Detection goes to a
\* Track at minimum centre distance over all Tracks of the registry.
C3_Original ==
    [][(/\ mode = "detect"
        /\ DetectionStep
        /\ Len(person_registry) = MaxTracks
        /\ \A i \in 1..Len(person_registry) :
              ~WithinDistance(box_distance4(last'.box, person_registry[i].box), max_distance))
       => (/\ Len(person_registry') = MaxTracks
           /\ \E i \in 1..Len(person_registry) :
                 /\ person_registry[i].pid = last'.pid
                 /\ \A j \in 1..Len(person_registry) :
                       box_distance4(last'.box, person_registry[i].box)
                           <= box_distance4(last'.box, person_registry[j].box))]_vars

\* C3 as amended: with 6 Tracks and no Track seen within max_frame_gap frames
\* that is within the proximity threshold, no 7th Track is created and the
\* Detection goes to the nearest Track among those seen within max_frame_gap
\* frames (the earliest created on a tie); only when every Track is stale is
\* the minimum taken over all Tracks of the registry.
C3_ForcedAssignment ==
    [][(/\ mode = "detect"
        /\ DetectionStep
        /\ Len(person_registry) = MaxTracks
        /\ \A i \in FreshTracks(person_registry, frame_counter) :
              ~WithinDistance(box_distance4(last'.box, person_registry[i].box), max_distance))
       => (/\ Len(person_registry') = MaxTracks
           /\ LET fresh == FreshTracks(person_registry, frame_counter)
                  t == IF fresh # {}
                       THEN FirstNearest(person_registry, fresh, last'.box)
                       ELSE FirstNearest(person_registry, 1..Len(person_registry), last'.box)
              IN  /\ last'.pid = person_registry[t].pid
                  /\ person_registry' = [person_registry EXCEPT ![t] =
                        [pid |-> @.pid, box |-> last'.box,
                         frame_count |-> @.frame_count + 1,
                         last_seen |-> frame_counter]])]_vars

\* the registry is full and the Detection was forced onto the nearest Track
\* seen within max_frame_gap frames while the registry also holds stale Tracks
C3_Witness ==
    /\ mode = "detect"
    /\ last.branch = "forced_best"
    /\ Len(person_registry) = MaxTracks
    /\ LastAssigned
    /\ \E j \in 1..Len(person_registry) :
          last.frame - person_registry[j].last_seen > max_frame_gap


-----------------------------------------------------------------------------
(* Payment mode: detect_payments *)

(* Bounds of the model *)

\* frames of the longest video in which a pattern of detections repeats
MaxVideoLen == 50
\* largest number of frames between the two detections of a two-detection video
MaxGap == 40

(* Program constants; confidences are hundredths *)

\* CLASS_IDS = {"cash": 1, "card": 2}
CashId == 1
CardId == 2
\* confidence < 0.4: continue
ConfFloor == 40
\* current_frame - prev_frame < 15
OnlineFrames == 15
\* abs(confidence - prev_confidence) < 0.1
ConfDelta == 10
\* abs(event["frame"] - existing["frame"]) < 30
MergeFrames == 30
\* abs(event["center"][k] - existing["center"][k]) < 50
MergePixels == 50

\* one row of all_dets after NMS
PayDet(cls, box, conf) == [cls |-> cls, box |-> box, conf |-> conf]

CashAt100 == PayDet(CashId, Box(95, 95, 105, 105), 50)
CashAt101 == PayDet(CashId, Box(96, 95, 106, 105), 50)
CashSure == PayDet(CashId, Box(95, 95, 105, 105), 70)
CashFar == PayDet(CashId, Box(155, 95, 165, 105), 50)
CashFaint == PayDet(CashId, Box(95, 95, 105, 105), 30)
CardAt100 == PayDet(CardId, Box(95, 95, 105, 105), 50)
Hand == PayDet(0, Box(95, 95, 105, 105), 50)

PayDets == {CashAt100, CashAt101, CashSure, CashFar, CashFaint, CardAt100, Hand}

\* what the detector (after NMS) reports in one frame
FrameContents == {<<>>} \cup {<<d>> : d \in PayDets}

\* a video is described by its length and a pattern of frame contents:
\* "periodic": frame i holds pattern[((i-1) mod Len(pattern)) + 1];
\* "sparse":   frame 1 holds pattern[1], the last frame pattern[2], the
\*             frames between them nothing
PeriodicVideos ==
    {[kind |-> "periodic", len |-> n, pattern |-> p] :
        n \in 0..MaxVideoLen, p \in [1..1 -> FrameContents] \cup [1..2 -> FrameContents]}

SparseVideos ==
    {[kind |-> "sparse", len |-> g + 1, pattern |-> p] :
        g \in 1..MaxGap, p \in [1..2 -> FrameContents \ {<<>>}]}

Videos == PeriodicVideos \cup SparseVideos

\* cap.read(): the detections of frame i (1 .. len)
FrameAt(v, i) ==
    IF v.kind = "periodic" THEN v.pattern[((i - 1) % Len(v.pattern)) + 1]
    ELSE IF i = 1 THEN v.pattern[1]
    ELSE IF i = v.len THEN v.pattern[2]
    ELSE <<>>

\* center = (x1 + x2) // 2, (y1 + y2) // 2
Center(box) == <<(box[1] + box[3]) \div 2, (box[2] + box[4]) \div 2>>

\* center_key = f"{center[0]}_{center[1]}": two integers in decimal around an
\* underscore, one string per pair; the pair stands for the string
center_key(center) == <<center[1], center[2]>>

\* the same test with the frame bound inclusive
OnlineDropInclusive(tc, key, cls, frame, conf) ==
    /\ key \in DOMAIN tc
    /\ tc[key].cls = cls
    /\ frame - tc[key].frame <= OnlineFrames
    /\ Abs(conf - tc[key].conf) < ConfDelta

\* the test that drops a detection as a continuation of a tracked centroid
OnlineDrop(tc, key, cls, frame, conf) ==
    /\ key \in DOMAIN tc
    /\ tc[key].cls = cls
    /\ frame - tc[key].frame < OnlineFrames
    /\ Abs(conf - tc[key].conf) < ConfDelta

\* tracked_centroids[center_key] = (cls_id, current_frame, confidence)
PutCentroid(tc, key, cls, frame, conf) ==
    [k \in DOMAIN tc \cup {key} |->
        IF k = key THEN [cls |-> cls, frame |-> frame, conf |-> conf] ELSE tc[k]]

Event(type, frame, conf, center) ==
    [type |-> type, frame |-> frame, confidence |-> conf, center |-> center]

\* the running values of the frame loop
PayState(tc, ev, fcash, fcard, cash, card, ptype) ==
    [tc |-> tc, ev |-> ev, fcash |-> fcash, fcard |-> fcard,
     cash |-> cash, card |-> card, ptype |-> ptype]

\* the body of "for det in all_dets" for one detection
ProcessDet(st, det, frame) ==
    LET center == Center(det.box)
        key == center_key(center)
    IN  IF det.cls \notin {CashId, CardId} \/ det.conf < ConfFloor THEN st
        ELSE IF OnlineDrop(st.tc, key, det.cls, frame, det.conf) THEN st
        ELSE LET tc == PutCentroid(st.tc, key, det.cls, frame, det.conf)
             IN  IF det.cls = CashId
                 THEN PayState(tc, Append(st.ev, Event("cash", frame, det.conf, center)),
                               TRUE, st.fcard, st.cash + 1, st.card,
                               IF ~st.fcash /\ st.ptype = "None"
                               THEN "Cash Payment" ELSE st.ptype)
                 ELSE PayState(tc, Append(st.ev, Event("card", frame, det.conf, center)),
                               st.fcash, TRUE, st.cash, st.card + 1,
                               IF ~st.fcard /\ st.ptype = "None"
                               THEN "Card Payment" ELSE st.ptype)

RECURSIVE ProcessDets(_, _, _, _)
ProcessDets(st, dets, i, frame) ==
    IF i > Len(dets) THEN st
    ELSE ProcessDets(ProcessDet(st, dets[i], frame), dets, i + 1, frame)

\* the test of the post-processing pass: event repeats an event already kept
is_duplicate_online_window(event, existing) ==
    /\ event.type = existing.type
    /\ Abs(event.frame - existing.frame) < OnlineFrames
    /\ Abs(event.center[1] - existing.center[1]) < MergePixels
    /\ Abs(event.center[2] - existing.center[2]) < MergePixels

is_duplicate_inclusive(event, existing) ==
    /\ event.type = existing.type
    /\ Abs(event.frame - existing.frame) <= MergeFrames
    /\ Abs(event.center[1] - existing.center[1]) < MergePixels
    /\ Abs(event.center[2] - existing.center[2]) < MergePixels

is_duplicate(event, existing) ==
    /\ event.type = existing.type
    /\ Abs(event.frame - existing.frame) < MergeFrames
    /\ Abs(event.center[1] - existing.center[1]) < MergePixels
    /\ Abs(event.center[2] - existing.center[2]) < MergePixels

\* the post-processing loop over payment_events
RECURSIVE FilterEvents(_, _, _)
FilterEvents(events, i, kept) ==
    IF i > Len(events) THEN kept
    ELSE IF \E j \in 1..Len(kept) : is_duplicate(events[i], kept[j])
         THEN FilterEvents(events, i + 1, kept)
         ELSE FilterEvents(events, i + 1, Append(kept, events[i]))

CountType(events, type) == Cardinality({i \in 1..Len(events) : events[i].type = type})

\* min(filtered_events, key=frame): the first event of the least frame
\* the last event of the list instead of the earliest one
FirstEventLast(events) == events[Len(events)]

FirstEvent(events) ==
    events[CHOOSE i \in 1..Len(events) : \A j \in 1..Len(events) :
        \/ events[i].frame < events[j].frame
        \/ events[i].frame = events[j].frame /\ i <= j]

\* app.py saves the processing state and calls detect_payments, which
\* returns None before the frame loop when the video does not open or has
\* no frame (a video that does not open reports 0 frames)
PayStart ==
    /\ mode = "payment"
    /\ pc = "start"
    /\ processing_state' = [saved |-> TRUE, timestamp |-> now]
    /\ pc' = IF video.len = 0 THEN "aborted" ELSE "loop"
    /\ report' = IF video.len = 0 THEN "error" ELSE report
    /\ UNCHANGED <<video, current_frame, tracked_centroids, payment_events,
                   filtered_events, first_cash_detected, first_card_detected,
                   cash_payments, card_payments, payment_type>>
    /\ UNCHANGED <<stop_processing, now, pending_processing>>
    /\ UNCHANGED personVars
    /\ UNCHANGED uploadVars

\* one iteration of the frame loop that reads a frame
PayFrame ==
    /\ mode = "payment"
    /\ pc = "loop"
    /\ ~stop_processing
    /\ current_frame < video.len
    /\ LET frame == current_frame + 1
           st == ProcessDets(PayState(tracked_centroids, payment_events,
                                      first_cash_detected, first_card_detected,
                                      cash_payments, card_payments, payment_type),
                             FrameAt(video, frame), 1, frame)
       IN  /\ current_frame' = frame
           /\ tracked_centroids' = st.tc
           /\ payment_events' = st.ev
           /\ first_cash_detected' = st.fcash
           /\ first_card_detected' = st.fcard
           /\ cash_payments' = st.cash
           /\ card_payments' = st.card
           /\ payment_type' = st.ptype
    /\ UNCHANGED <<video, pc, filtered_events>>
    /\ UNCHANGED sessionVars
    /\ UNCHANGED personVars
    /\ UNCHANGED uploadVars

\* cap.read() fails at the end of the video: the loop ends and the
\* post-processing pass computes the reported counts and payment type;
\* "from app import clear_processing_state" sits in a try whose except
\* passes: the processing state file is removed or it is left
PayFinish ==
    /\ mode = "payment"
    /\ pc = "loop"
    /\ ~stop_processing
    /\ current_frame = video.len
    /\ pc' = "done"
    /\ report' = "completed"
    /\ processing_state' \in {NoState, processing_state}
    /\ UNCHANGED <<stop_processing, now, pending_processing>>
    /\ IF payment_events # <<>>
       THEN LET kept == FilterEvents(payment_events, 1, <<>>)
            IN  /\ filtered_events' = kept
                /\ cash_payments' = CountType(kept, "cash")
                /\ card_payments' = CountType(kept, "card")
                /\ payment_type' = IF FirstEvent(kept).type = "cash"
                                   THEN "Cash Payment" ELSE "Card Payment"
       ELSE UNCHANGED <<filtered_events, cash_payments, card_payments, payment_type>>
    /\ UNCHANGED <<video, current_frame, tracked_centroids, payment_events,
                   first_cash_detected, first_card_detected>>
    /\ UNCHANGED personVars
    /\ UNCHANGED uploadVars

InitPayment ==
    /\ mode = "payment"
    /\ person_registry = <<>>
    /\ frame_counter = 0
    /\ detection_counter = 0
    /\ next_id = 0
    /\ last = Outcome(BoxA, NoPid, "init", 0)
    /\ library = {}
    /\ saved = {}
    /\ known_faces = <<>>
    /\ video \in Videos
    /\ pc = "start"
    /\ current_frame = 0
    /\ tracked_centroids = <<>>
    /\ payment_events = <<>>
    /\ filtered_events = <<>>
    /\ first_cash_detected = FALSE
    /\ first_card_detected = FALSE
    /\ cash_payments = 0
    /\ card_payments = 0
    /\ payment_type = "None"
    /\ SessionIdle
    /\ UploadIdle

NextPayment ==
    \/ PayStart
    \/ PayFrame
    \/ PayFinish

SpecPayment == InitPayment /\ [][NextPayment]_vars


-----------------------------------------------------------------------------
(* Claims about the payment de-duplication, checked under SpecPayment *)

\* the detections the de-duplicator is fed in frame i of v
FedAt(v, i) ==
    {k \in 1..Len(FrameAt(v, i)) :
        /\ FrameAt(v, i)[k].cls \in {CashId, CardId}
        /\ FrameAt(v, i)[k].conf >= ConfFloor}

\* every frame of v holds exactly one detection, a cash detection above the
\* confidence floor, and any two of the centres differ by at most px pixels
\* in each axis
OneCashPerFrame(v, px) ==
    /\ v.len >= 1
    /\ \A i \in 1..v.len :
          /\ Len(FrameAt(v, i)) = 1
          /\ FrameAt(v, i)[1].cls = CashId
          /\ FrameAt(v, i)[1].conf >= ConfFloor
    /\ \A i, j \in 1..v.len :
          LET ci == Center(FrameAt(v, i)[1].box)
              cj == Center(FrameAt(v, j)[1].box)
          IN  Abs(ci[1] - cj[1]) <= px /\ Abs(ci[2] - cj[2]) <= px

\* C4 as stated: for every N >= 1, N near-identical cash detections in N
\* consecutive frames (centres within 10 px) leave exactly 1 cash event.
C4_Original ==
    (mode = "payment" /\ pc = "done" /\ OneCashPerFrame(video, 10)) => cash_payments = 1

\* C4 as amended: for every N with 1 <= N <= 30, N near-identical cash
\* detections in N consecutive frames (centres within 10 px) leave exactly
\* 1 cash event after the online rule and the offline merge pass, the event
\* of the first detection.
C4_MergedWithinWindow ==
    (mode = "payment" /\ pc = "done" /\ OneCashPerFrame(video, 10) /\ video.len <= MergeFrames) =>
        /\ cash_payments = 1
        /\ card_payments = 0
        /\ Len(filtered_events) = 1
        /\ filtered_events[1] = payment_events[1]
        /\ filtered_events[1].frame = 1

\* 30 near-identical cash detections in 30 consecutive frames registered
\* several raw events, and one is left
C4_Witness ==
    /\ mode = "payment"
    /\ pc = "done"
    /\ OneCashPerFrame(video, 10)
    /\ video.len = MergeFrames
    /\ Len(payment_events) > 1
    /\ cash_payments = 1

\* C5 as stated: 50 cash detections, one per frame over 50 consecutive
\* frames, centres within a 20 px radius, give cash_payments = 1.
C5_Original ==
    (mode = "payment" /\ pc = "done" /\ video.len = 50 /\ OneCashPerFrame(video, 40)) =>
        cash_payments = 1

\* C5 as amended: 50 cash detections, one per frame over 50 consecutive
\* frames, centres within a 20 px radius, give cash_payments = 2: the first
\* detection and the first raw event 30 or more frames after it survive.
C5_FiftyFramesTwoEvents ==
    (mode = "payment" /\ pc = "done" /\ video.len = 50 /\ OneCashPerFrame(video, 40)) =>
        /\ cash_payments = 2
        /\ Len(filtered_events) = 2
        /\ filtered_events[1].frame = 1
        /\ filtered_events[2].frame - filtered_events[1].frame >= MergeFrames
        /\ \A i \in 1..Len(payment_events) :
              payment_events[i].frame - filtered_events[1].frame >= MergeFrames =>
                  payment_events[i].frame >= filtered_events[2].frame

\* the 50-frame video was processed to the end and the online rule had
\* already dropped most of the 50 detections
C5_Witness ==
    /\ mode = "payment"
    /\ pc = "done"
    /\ video.len = 50
    /\ OneCashPerFrame(video, 40)
    /\ current_frame = 50
    /\ Len(payment_events) < 50
    /\ cash_payments = 2

\* v holds two detections only, of the same payment kind and the same
\* centre, both above the confidence floor, gap frames apart
TwoAtSamePlace(v, gap) ==
    /\ v.kind = "sparse"
    /\ v.len = gap + 1
    /\ FedAt(v, 1) = {1}
    /\ FedAt(v, v.len) = {1}
    /\ v.pattern[1][1].cls = v.pattern[2][1].cls
    /\ Center(v.pattern[1][1].box) = Center(v.pattern[2][1].box)

\* C6: two detections of the same kind at the same place, 30 or more frames
\* apart, are both registered by the online rule and both kept by the
\* offline pass: the count of that kind is 2.
C6_BothSurvive ==
    \A gap \in MergeFrames..MaxGap :
        (mode = "payment" /\ pc = "done" /\ TwoAtSamePlace(video, gap)) =>
            /\ Len(payment_events) = 2
            /\ filtered_events = payment_events
            /\ filtered_events[1].frame = 1
            /\ filtered_events[2].frame = gap + 1
            /\ IF video.pattern[1][1].cls = CashId
               THEN cash_payments = 2 /\ card_payments = 0
               ELSE cash_payments = 0 /\ card_payments = 2

\* two cash detections exactly 30 frames apart were counted as 2
C6_Witness ==
    /\ mode = "payment"
    /\ pc = "done"
    /\ TwoAtSamePlace(video, MergeFrames)
    /\ video.pattern[1][1].cls = CashId
    /\ cash_payments = 2


-----------------------------------------------------------------------------
(* The stored reference images and the matcher of identify and mixed mode *)

(* Bounds of the model *)

\* person detections examined in one identify or mixed session
MaxMatchDetections == 2
\* last frame index of an identify or mixed session
MaxMatchFrame == 1
(* Program constants; similarities are hundredths *)

\* identification_logic.py: similarity > 0.7
IdentifyThreshold == 70
\* mixed_detection_logic.py: similarity > 0.5
MixedThreshold == 50
\* mixed_detection_logic.py: frame_counter - data["last_seen"] <= 30
MixedFrameGap == 30
\* mixed_detection_logic.py: min_distance <= 50
MixedDistance == 50

DetectedTop == "Detected people"
IdentifiedTop == "Identified people"

\* the session that is being processed
CurrentSession == "current"

\* <base>/<top>/<session>/<pid>/<file>.jpg
Img(top, session, pid, n) == [top |-> top, session |-> session, pid |-> pid, n |-> n]

\* two persons detected in session s1; the first of them identified again in
\* the sessions s2 and s3
PersonOne == Pid(<<>>, 1)
PersonTwo == Pid(<<>>, 2)
ImgOneDetected == Img(DetectedTop, "s1", PersonOne, 1)
ImgTwoDetected == Img(DetectedTop, "s1", PersonTwo, 2)
ImgOneIdentified == Img(IdentifiedTop, "s2", PersonOne, 3)
ImgOneIdentifiedAgain == Img(IdentifiedTop, "s3", PersonOne, 4)

StoredImages == {ImgOneDetected, ImgTwoDetected, ImgOneIdentified, ImgOneIdentifiedAgain}

\* the libraries earlier sessions have left behind: a person is identified
\* only against an image stored when the person was detected
Libraries ==
    {{},
     {ImgOneDetected},
     {ImgTwoDetected},
     {ImgOneDetected, ImgTwoDetected},
     {ImgOneDetected, ImgOneIdentified},
     {ImgOneDetected, ImgOneIdentified, ImgOneIdentifiedAgain}}

\* ssim of a crop against a stored image
SimVals == {40, 50, 60, 70, 85}

\* the orders in which a listing can yield the members of S
Orders(S) ==
    {o \in [1..Cardinality(S) -> S] : \A i, j \in 1..Cardinality(S) : i # j => o[i] # o[j]}

Ref(key, img) == [key |-> key, img |-> img]

\* identify_persons: the walk over "Detected people"/<session>/<pid>/<image>
ListEverything(lib) == {Ref(img.pid, img) : img \in lib}

ListDetected(lib) == {Ref(img.pid, img) : img \in {i \in lib : i.top = DetectedTop}}

\* f"detected_{person_id}", f"identified_{person_id}"
Prefixed(prefix, pid) == Pid(<<prefix>> \o pid.pre, pid.n)

KeyOf(img) ==
    IF img.top = DetectedTop THEN Prefixed("detected_", img.pid)
    ELSE Prefixed("identified_", img.pid)

\* mixed_detection_identification: known_faces after the sessions of order
\* have been loaded, as a function from key to the images of the key; a key
\* loaded again is overwritten
RECURSIVE LoadKnownFaces(_, _, _, _)
LoadKnownFaces(lib, order, i, faces) ==
    IF i > Len(order) THEN faces
    ELSE LET here == {img \in lib : img.session = order[i]}
             keys == {KeyOf(img) : img \in here}
         IN  LoadKnownFaces(lib, order, i + 1,
                 [k \in DOMAIN faces \cup keys |->
                     IF k \in keys THEN {img \in here : KeyOf(img) = k} ELSE faces[k]])

\* existing_sessions: every session with a folder, the current one removed
ExistingSessions(lib) == {img.session : img \in lib} \ {CurrentSession}

KnownRefs(faces) == UNION {{Ref(k, img) : img \in faces[k]} : k \in DOMAIN faces}

\* similarity > threshold
MatchesInclusive(similarity, threshold) == similarity >= threshold

Matches(similarity, threshold) == similarity > threshold

\* the scan of the stored images: best_known_match_id and best_similarity
RECURSIVE ScanFrom(_, _, _, _, _, _)
ScanFrom(refs, i, sims, threshold, best_id, best_sim) ==
    IF i > Len(refs) THEN [id |-> best_id, sim |-> best_sim]
    ELSE IF sims[refs[i].img] > best_sim /\ Matches(sims[refs[i].img], threshold)
         THEN ScanFrom(refs, i + 1, sims, threshold, refs[i].key, sims[refs[i].img])
         ELSE ScanFrom(refs, i + 1, sims, threshold, best_id, best_sim)

Scan(refs, sims, threshold) == ScanFrom(refs, 1, sims, threshold, NoPid, 0)

Compared(refs) == {refs[i].img : i \in 1..Len(refs)}

\* save_person_frame: <top>/<current session>/<pid>/frame_<frame>.jpg
Saved(top, pid, f) == [top |-> top, pid |-> pid, frame |-> f]

\* the largest similarity of the crop to a compared image (0 without one)
TopSimilarity(sims, refs) ==
    IF refs = <<>> THEN 0
    ELSE CHOOSE v \in {sims[img] : img \in Compared(refs)} :
            \A img \in Compared(refs) : sims[img] <= v

\* the person records that own a compared image of the largest similarity
TopOwners(sims, refs) ==
    {img.pid : img \in {i \in Compared(refs) : sims[i] = TopSimilarity(sims, refs)}}

\* the detection just examined: its box, the images its crop was compared
\* with, the largest similarity among them and the owners of the images
\* that reach it; the person_id and the branch the loop body ended with
MatchOutcome(box, pid, branch, f, sims, refs) ==
    [box |-> box, pid |-> pid, branch |-> branch, frame |-> f,
     compared |-> Compared(refs),
     top |-> TopSimilarity(sims, refs),
     owners |-> TopOwners(sims, refs)]

Result(reg, pid, branch, made, files) ==
    [reg |-> reg, pid |-> pid, branch |-> branch, made |-> made, files |-> files]

-----------------------------------------------------------------------------
(* Identify mode: identify_persons *)

\* an unmatched detection handled as detect mode handles it
IdentifyUnmatchedCreates(reg, box, f, k) ==
    Result(Append(reg, Track(generate_person_id(k + 1), box, f)),
           generate_person_id(k + 1), "new", 1, {})

\* else: continue  (skip unmatched detections in identification mode)
IdentifyUnmatched(reg, box, f, k) == Result(reg, NoPid, "skipped", 0, {})

\* the body of the detection loop from the scan on
IdentifyAssign(reg, refs, sims, box, f, k) ==
    LET m == Scan(refs, sims, IdentifyThreshold)
    IN  IF m.id # NoPid
        THEN Result(IF IndexOf(reg, m.id) = 0
                    THEN Append(reg, Track(m.id, box, f))
                    ELSE UpdateTrack(reg, IndexOf(reg, m.id), box, f),
                    m.id, "identified", 0, {Saved(IdentifiedTop, m.id, f)})
        ELSE IdentifyUnmatched(reg, box, f, k)

IdentifyPerson(box, sims) ==
    /\ mode = "identify"
    /\ detection_counter < MaxMatchDetections
    /\ IF crop_head_size(box) = 0
       THEN /\ last' = MatchOutcome(box, NoPid, "nocrop", frame_counter, sims, <<>>)
            /\ UNCHANGED <<person_registry, detection_counter, next_id, saved>>
       ELSE LET r == IdentifyAssign(person_registry, known_faces, sims, box,
                                    frame_counter, next_id)
            IN  /\ person_registry' = r.reg
                /\ next_id' = next_id + r.made
                /\ saved' = saved \cup r.files
                /\ detection_counter' = detection_counter + 1
                /\ last' = MatchOutcome(box, r.pid, r.branch, frame_counter, sims, known_faces)
    /\ UNCHANGED <<mode, frame_counter, library, known_faces>>
    /\ UNCHANGED paymentVars
    /\ UNCHANGED sessionVars
    /\ UNCHANGED uploadVars

-----------------------------------------------------------------------------
(* Mixed mode: mixed_detection_identification *)

\* crop_head of mixed_detection_logic.py: int((y2 - y1) * 0.3) rows
crop_head_size_mixed(b) == (((b[4] - b[2]) * 3) \div 10) * (b[3] - b[1])

\* box_distance of mixed_detection_logic.py, on centres rounded down: distance^2
box_distance_mixed2(b1, b2) ==
    LET dx == ((b1[1] + b1[3]) \div 2) - ((b2[1] + b2[3]) \div 2)
        dy == ((b1[2] + b1[4]) \div 2) - ((b2[2] + b2[4]) \div 2)
    IN  dx * dx + dy * dy

MixedTrack(pid, box, f, type) ==
    [pid |-> pid, box |-> box, frame_count |-> 1, last_seen |-> f, type |-> type]

\* the loop over person_registry.items() restricted to type "new"
RECURSIVE MixedBestFrom(_, _, _, _, _, _)
MixedBestFrom(reg, i, box, f, best, min2) ==
    IF i > Len(reg) THEN [id |-> best, dist2 |-> min2]
    ELSE LET d2 == box_distance_mixed2(box, reg[i].box)
         IN  IF /\ reg[i].type = "new"
                /\ (min2 = -1 \/ d2 < min2)
                /\ f - reg[i].last_seen <= MixedFrameGap
             THEN MixedBestFrom(reg, i + 1, box, f, i, d2)
             ELSE MixedBestFrom(reg, i + 1, box, f, best, min2)

\* the body of the detection loop from the scan on
MixedAssign(reg, refs, sims, box, f, k) ==
    LET m == Scan(refs, sims, MixedThreshold)
    IN  IF m.id # NoPid
        THEN Result(IF IndexOf(reg, m.id) = 0
                    THEN Append(reg, MixedTrack(m.id, box, f, "existing"))
                    ELSE UpdateTrack(reg, IndexOf(reg, m.id), box, f),
                    m.id, "existing", 0, {Saved(IdentifiedTop, m.id, f)})
        ELSE LET t == MixedBestFrom(reg, 1, box, f, 0, -1)
             IN  IF t.id # 0 /\ t.dist2 <= MixedDistance * MixedDistance
                 THEN Result(UpdateTrack(reg, t.id, box, f), reg[t.id].pid, "tracked", 0,
                             {Saved(DetectedTop, reg[t.id].pid, f)})
                 ELSE Result(Append(reg, MixedTrack(generate_person_id(k + 1), box, f, "new")),
                             generate_person_id(k + 1), "new", 1,
                             {Saved(DetectedTop, generate_person_id(k + 1), f)})

\* the body of "for det in results[0].boxes.data" for one person box
MixedStep(box, sims) ==
    /\ mode = "mixed"
    /\ IF crop_head_size_mixed(box) = 0
       THEN /\ last' = MatchOutcome(box, NoPid, "nocrop", frame_counter, sims, <<>>)
            /\ UNCHANGED <<person_registry, detection_counter, next_id, saved>>
       ELSE LET r == MixedAssign(person_registry, known_faces, sims, box,
                                 frame_counter, next_id)
            IN  /\ person_registry' = r.reg
                /\ next_id' = next_id + r.made
                /\ saved' = saved \cup r.files
                /\ detection_counter' = detection_counter + 1
                /\ last' = MatchOutcome(box, r.pid, r.branch, frame_counter, sims, known_faces)
    /\ UNCHANGED <<mode, frame_counter, library, known_faces>>
    /\ UNCHANGED paymentVars
    /\ UNCHANGED sessionVars
    /\ UNCHANGED uploadVars

MixedPerson(box, sims) ==
    /\ detection_counter < MaxMatchDetections
    /\ MixedStep(box, sims)

\* frame_counter += 1 at the end of an iteration of either frame loop
MatchNextFrame ==
    /\ mode \in {"identify", "mixed"}
    /\ frame_counter < MaxMatchFrame
    /\ frame_counter' = frame_counter + 1
    /\ UNCHANGED <<mode, person_registry, detection_counter, next_id, last,
                   library, saved, known_faces>>
    /\ UNCHANGED paymentVars
    /\ UNCHANGED sessionVars
    /\ UNCHANGED uploadVars

MatchBoxes == {BoxA, BoxB, BoxFlat}

\* the images the matcher scans, in the order of the scan; in mixed mode
\* the sessions are loaded in the order of a Python set
InitMatch ==
    /\ mode \in {"identify", "mixed"}
    /\ person_registry = <<>>
    /\ frame_counter = 0
    /\ detection_counter = 0
    /\ next_id = 0
    /\ library \in Libraries
    /\ last = MatchOutcome(BoxA, NoPid, "init", 0, [img \in library |-> 40], <<>>)
    /\ saved = {}
    /\ IF mode = "identify"
       THEN known_faces \in Orders(ListDetected(library))
       ELSE \E order \in Orders(ExistingSessions(library)) :
               known_faces \in Orders(KnownRefs(LoadKnownFaces(library, order, 1, <<>>)))
    /\ PaymentIdle
    /\ SessionIdle
    /\ UploadIdle

\* the crop of a detection has a similarity to each image it is compared with
NextMatch ==
    \/ \E box \in MatchBoxes, sims \in [Compared(known_faces) -> SimVals] : IdentifyPerson(box, sims)
    \/ \E box \in MatchBoxes, sims \in [Compared(known_faces) -> SimVals] : MixedPerson(box, sims)
    \/ MatchNextFrame

SpecMatch == InitMatch /\ [][NextMatch]_vars


-----------------------------------------------------------------------------
(* Claims about the matcher, checked under SpecMatch *)

\* the most recent step examined a crop that was not empty
Examined == last.branch \notin {"init", "nocrop"}

\* the most recent detection was matched to a stored identity
Matched == last.branch \in {"identified", "existing"}

\* C7: in identify mode a Detection whose similarity to every compared
\* reference image is at most 0.7 (exactly 0.7 included) is skipped; only a
\* similarity above 0.7 produces a match.
C7_StrictThreshold ==
    (mode = "identify" /\ Examined) =>
        /\ last.top <= 70 => (last.branch = "skipped" /\ last.pid = NoPid)
        /\ last.branch = "identified" <=> last.top > 70

\* a crop whose best similarity is exactly 0.7 was skipped
C7_Witness ==
    /\ mode = "identify"
    /\ last.branch = "skipped"
    /\ last.top = 70
    /\ last.compared # {}

\* C8: with an empty reference library nothing is matched: identify mode
\* skips every Detection and creates no identity, and every Track of mixed
\* mode is tagged new.
C8_EmptyLibrary ==
    library = {} =>
        /\ ~Matched
        /\ mode = "identify" =>
              /\ person_registry = <<>>
              /\ saved = {}
              /\ next_id = 0
              /\ Examined => last.branch = "skipped"
        /\ mode = "mixed" =>
              /\ \A i \in 1..Len(person_registry) : person_registry[i].type = "new"
              /\ \A file \in saved : file.top = DetectedTop
              /\ Examined => last.branch \in {"new", "tracked"}

\* mixed mode on an empty library has created two Tracks
C8_Witness ==
    /\ library = {}
    /\ mode = "mixed"
    /\ Len(person_registry) = 2
    /\ Examined

\* C9: when the best similarity exceeds the threshold, the identity the
\* Detection gets (the registry key and the folder of the saved frame) is
\* the token of a Person Record that owns a compared image of the largest
\* similarity, in identify mode and in mixed mode.
C9_Original ==
    (mode \in {"identify", "mixed"} /\ Matched) =>
        /\ last.pid \in last.owners
        /\ IndexOf(person_registry, last.pid) # 0
        /\ Saved(IdentifiedTop, last.pid, last.frame) \in saved

\* C10 as stated: every stored reference image, under a detected or an
\* identified person record, is compared against each new crop.
C10_Original ==
    (mode \in {"identify", "mixed"} /\ Examined) => last.compared = library

\* the images of lib stored for person record pid under top
ImagesOf(lib, top, pid) == {img \in lib : img.top = top /\ img.pid = pid}

\* C10 as amended: in identify mode each new crop is compared against every
\* image stored under a detected person record and against no image stored
\* under an identified person record; in mixed mode it is compared, for each
\* person token under each of the two record types, against the images of
\* that person stored by exactly one prior session.
C10_ScannedLibrary ==
    (mode \in {"identify", "mixed"} /\ Examined) =>
        /\ last.compared \subseteq library
        /\ mode = "identify" => last.compared = {img \in library : img.top = DetectedTop}
        /\ mode = "mixed" =>
              \A img \in library :
                  \E session \in {i.session : i \in ImagesOf(library, img.top, img.pid)} :
                      ImagesOf(last.compared, img.top, img.pid) =
                          {i \in ImagesOf(library, img.top, img.pid) : i.session = session}

\* identify mode matched a crop without comparing it with the image stored
\* under the identified person record
C10_Witness ==
    /\ mode = "identify"
    /\ last.branch = "identified"
    /\ ImgOneIdentified \in library
    /\ ImgOneIdentified \notin last.compared

-----------------------------------------------------------------------------
(* Claims about the reported payment type, checked under SpecPayment *)

\* the label reported for an event of the given type
LabelOf(type) == IF type = "cash" THEN "Cash Payment" ELSE "Card Payment"

\* C11: after the offline merge pass the reported payment_type is the kind
\* of a surviving event of the smallest frame index; when no payment event
\* was recorded no payment type is reported.
C11_EarliestSurvivorLabel ==
    (mode = "payment" /\ pc = "done") =>
        IF payment_events = <<>>
        THEN payment_type = "None" /\ filtered_events = <<>>
        ELSE \E i \in 1..Len(filtered_events) :
                /\ \A j \in 1..Len(filtered_events) :
                      filtered_events[i].frame <= filtered_events[j].frame
                /\ payment_type = LabelOf(filtered_events[i].type)

\* a card event in frame 1 and a cash event in a later frame both survived
\* and the report names the card payment
C11_Witness ==
    /\ mode = "payment"
    /\ pc = "done"
    /\ Len(filtered_events) = 2
    /\ filtered_events[1].type = "card"
    /\ filtered_events[2].type = "cash"
    /\ filtered_events[1].frame < filtered_events[2].frame
    /\ payment_type = "Card Payment"

-----------------------------------------------------------------------------
(* Claims about skipped detections of identify mode, checked under SpecMatch *)

\* the identity tokens of the person records of the reference library
LibraryTokens == {img.pid : img \in library}

\* C12: in identify mode a Detection whose best similarity does not exceed
\* the threshold is skipped: the step adds no entry to the registry, mints
\* no identity and stores no reference image; so every identity of the
\* registry, and the folder of every stored frame, is a token of the
\* reference library.
C12_SkippedLeavesNoTrace ==
    [][mode = "identify" =>
          /\ (detection_counter' = detection_counter + 1 /\ last'.top <= IdentifyThreshold) =>
                /\ last'.branch = "skipped"
                /\ person_registry' = person_registry
                /\ next_id' = next_id
                /\ saved' = saved
          /\ \A i \in 1..Len(person_registry') : person_registry'[i].pid \in LibraryTokens
          /\ \A file \in saved' : file.pid \in LibraryTokens /\ file.top = IdentifiedTop]_vars

\* a crop was identified and the next one, below the threshold, was skipped:
\* the registry still holds the one identity
C12_Witness ==
    /\ mode = "identify"
    /\ last.branch = "skipped"
    /\ last.compared # {}
    /\ detection_counter = 2
    /\ Len(person_registry) = 1
    /\ person_registry[1].frame_count = 1

-----------------------------------------------------------------------------
(* Claims about the registry of detect mode, checked under SpecDetect *)

\* the tracks of reg registered under the identity token pid
TracksOf(reg, pid) == {i \in 1..Len(reg) : reg[i].pid = pid}

\* C13: after a Detection is assigned to Track T by any branch of the
\* tracker (proximity match, new Track, forced fallback), the registry holds
\* exactly one Track under T's identity token and its box is the Detection's
\* box; a step that assigns nothing to T leaves T's token and box as they
\* were.
C13_BoxRoundTrip ==
    [][mode = "detect" =>
          \A i \in 1..Len(person_registry') :
              IF DetectionStep /\ person_registry'[i].pid = last'.pid
              THEN /\ person_registry'[i].box = last'.box
                   /\ TracksOf(person_registry', last'.pid) = {i}
                   /\ last'.branch \in {"proximity", "new", "forced_best", "forced_nearest"}
              ELSE /\ i <= Len(person_registry)
                   /\ person_registry'[i].pid = person_registry[i].pid
                   /\ person_registry'[i].box = person_registry[i].box]_vars

\* the forced fallback moved a Track to a box far from every Track
C13_Witness ==
    /\ mode = "detect"
    /\ last.branch = "forced_best"
    /\ last.box = BoxC
    /\ \E i \in TracksOf(person_registry, last.pid) :
          /\ person_registry[i].box = BoxC
          /\ person_registry[i].frame_count >= 2
    /\ \A j \in 1..Len(person_registry) :
          person_registry[j].pid # last.pid => person_registry[j].box # BoxC

-----------------------------------------------------------------------------
(* Detect mode on a video that shows one person box in every frame *)

\* the boxes of the one-box videos: four places, heights 2, 3 and 10
RunBoxes == {Box(x, 0, x + 10, h) : x \in {0, 40, 80, 120}, h \in {2, 3, 10}}

\* the detector reports the box of the video once in the current frame
RunDetect ==
    /\ last.branch = "init" \/ last.frame < frame_counter
    /\ DetectPerson(last.box)

\* the frame loop goes on to the next frame after the box of this frame
RunNextFrame ==
    /\ last.branch # "init"
    /\ last.frame = frame_counter
    /\ NextFrame

InitRun ==
    /\ mode = "detect"
    /\ person_registry = <<>>
    /\ frame_counter = 0
    /\ detection_counter = 0
    /\ next_id = 0
    /\ \E box \in RunBoxes : last = Outcome(box, NoPid, "init", 0)
    /\ library = {}
    /\ saved = {}
    /\ known_faces = <<>>
    /\ PaymentIdle
    /\ SessionIdle
    /\ UploadIdle

NextRun ==
    \/ RunDetect
    \/ RunNextFrame

SpecRun == InitRun /\ [][NextRun]_vars

(* Claims about the one-box videos, checked under SpecRun *)

\* the detections the tracker has been fed: one in each frame up to the
\* frame of the latest one
FedDetections == last.frame + 1

\* C14 as stated: from an empty registry and an empty library, k >= 1
\* person detections with the same box in k consecutive frames yield exactly
\* one Track whose appearance count is k, whatever the box.
C14_Original ==
    (mode = "detect" /\ library = {} /\ last.branch # "init" /\ ValidBox(last.box)) =>
        /\ Len(person_registry) = 1
        /\ person_registry[1].frame_count = FedDetections

\* C14 as amended: from an empty registry and an empty library, k >= 1
\* person detections with the same box in k consecutive frames yield exactly
\* one Track whose appearance count is k when the head crop of the box (its
\* top int(0.4*h) rows) is not empty, and no Track when it is empty.
C14_SameBoxOneTrack ==
    (mode = "detect" /\ library = {} /\ last.branch # "init" /\ ValidBox(last.box)) =>
        IF crop_head_size(last.box) > 0
        THEN /\ Len(person_registry) = 1
             /\ person_registry[1].frame_count = FedDetections
             /\ person_registry[1].box = last.box
             /\ person_registry[1].last_seen = last.frame
             /\ FedDetections = 1 <=> last.branch = "new"
        ELSE person_registry = <<>> /\ last.branch = "skipped"

\* three detections of one box in frames 0, 1 and 2 gave one Track seen 3 times
C14_Witness ==
    /\ mode = "detect"
    /\ library = {}
    /\ frame_counter = 2
    /\ last.frame = 2
    /\ last.branch = "proximity"
    /\ Len(person_registry) = 1
    /\ person_registry[1].frame_count = 3

-----------------------------------------------------------------------------
(* Mixed mode on detections that match no known identity *)

\* person detections examined in one video of unmatched people
MaxNewDetections == 7
\* last frame index of such a video
MaxNewFrame == 62

\* the libraries of these videos: nothing stored, or one stored image
NewLibraries == {{}, {ImgOneDetected}}

\* similarities that do not exceed the threshold of mixed mode
LowSims == {40, 50}

\* an unmatched person at one of three places more than 50 px apart
NewPerson(box, sims) ==
    /\ detection_counter < MaxNewDetections
    /\ MixedStep(box, sims)

\* MixedFrameGap + 1 iterations in a row in which the detector reports no
\* person: each of them only adds 1 to frame_counter
MixedEmptyFrames ==
    /\ mode = "mixed"
    /\ frame_counter + MixedFrameGap + 1 <= MaxNewFrame
    /\ frame_counter' = frame_counter + MixedFrameGap + 1
    /\ UNCHANGED <<mode, person_registry, detection_counter, next_id, last,
                   library, saved, known_faces>>
    /\ UNCHANGED paymentVars
    /\ UNCHANGED sessionVars
    /\ UNCHANGED uploadVars

InitNew ==
    /\ mode = "mixed"
    /\ person_registry = <<>>
    /\ frame_counter = 0
    /\ detection_counter = 0
    /\ next_id = 0
    /\ library \in NewLibraries
    /\ last = MatchOutcome(BoxA, NoPid, "init", 0, [img \in library |-> 40], <<>>)
    /\ saved = {}
    /\ known_faces \in Orders(KnownRefs(LoadKnownFaces(library, <<"s1">>, 1, <<>>)))
    /\ PaymentIdle
    /\ SessionIdle
    /\ UploadIdle

NextNew ==
    \/ \E box \in {BoxA, BoxB, BoxC}, sims \in [library -> LowSims] : NewPerson(box, sims)
    \/ MixedEmptyFrames

SpecNew == InitNew /\ [][NextNew]_vars

(* Claims about the Tracks of unmatched people, checked under SpecNew *)

\* the Tracks of the registry tagged new
NewTracks == {i \in 1..Len(person_registry) : person_registry[i].type = "new"}

\* C15: in mixed mode, after any sequence of person detections that match
\* no known identity, the registry holds at most 6 Tracks tagged new.
C15_Original ==
    mode = "mixed" => Cardinality(NewTracks) <= MaxTracks

-----------------------------------------------------------------------------
(* Claims about the threshold of mixed mode, checked under SpecMatch *)

\* C16 as stated: mixed mode uses the threshold of identify mode: a crop
\* whose largest similarity to the library is at most 0.7 is not identified
\* as an existing person and goes to the tracker as an unmatched detection.
C16_Original ==
    (mode = "mixed" /\ Examined /\ last.top <= 70) =>
        last.branch \in {"tracked", "new"}

\* C16 as amended: mixed mode uses the threshold 0.5: a crop whose largest
\* similarity to the images it is compared with is at most 0.5 (exactly 0.5
\* included) is not identified as an existing person and goes to the
\* tracker as an unmatched detection; a larger similarity identifies it.
C16_MixedThreshold ==
    (mode = "mixed" /\ Examined) =>
        /\ last.top <= 50 => last.branch \in {"tracked", "new"}
        /\ last.top > 50 => last.branch = "existing"

\* a crop of similarity 0.6 was identified as an existing person
C16_Witness ==
    /\ mode = "mixed"
    /\ last.branch = "existing"
    /\ last.top = 60
    /\ \E i \in 1..Len(person_registry) :
          person_registry[i].pid = last.pid /\ person_registry[i].type = "existing"

-----------------------------------------------------------------------------
(* The life of one session: dispatch, frame loop, stop, restart, page load *)

\* seconds for which the session is followed
MaxClock == 900
\* frames of the longest video of a followed session
MaxSessionFrames == 3

\* time.time() - state.get('timestamp', 0) < 600
FreshSeconds == 600
\* the clock is read every 300 seconds
TickSeconds == 300

PersonModes == {"detect", "identify", "mixed"}

\* a file that cv2.VideoCapture cannot open: CAP_PROP_FRAME_COUNT is 0
Unopenable == [kind |-> "unopenable", len |-> 0, pattern |-> <<<<>>>>]

\* videos that open, of 0 .. MaxSessionFrames frames: nothing to pay in any
\* frame, or a cash detection in every frame
SessionVideos ==
    {Unopenable} \cup
    {[kind |-> "periodic", len |-> n, pattern |-> p] :
        n \in 0..MaxSessionFrames, p \in {<<<<>>>>, <<<<CashAt100>>>>}}

\* similarities of a crop to the stored images in a followed session
SessionSims == {40, 85}

\* the loop body of the person mode of the session for one person box
SessionAssign(box, sims) ==
    IF mode = "detect"
    THEN LET r == DetectAssign(person_registry, box, frame_counter, next_id)
         IN  Result(r.reg, r.pid, r.branch, r.made,
                    {Saved(DetectedTop, r.pid, frame_counter)})
    ELSE IF mode = "identify"
    THEN IdentifyAssign(person_registry, known_faces, sims, box, frame_counter, next_id)
    ELSE MixedAssign(person_registry, known_faces, sims, box, frame_counter, next_id)

\* a person mode is dispatched: no check of the video before the loop; a
\* video that does not open or has no frame leaves the loop at once and the
\* function reports the completion
PersonStart ==
    /\ mode \in PersonModes
    /\ pc = "start"
    /\ pc' = IF video.len = 0 THEN "done" ELSE "loop"
    /\ report' = IF video.len = 0 THEN "completed" ELSE report
    /\ UNCHANGED <<stop_processing, processing_state, now, pending_processing>>
    /\ UNCHANGED personVars
    /\ UNCHANGED <<video, current_frame, tracked_centroids, payment_events,
                   filtered_events, first_cash_detected, first_card_detected,
                   cash_payments, card_payments, payment_type>>
    /\ UNCHANGED uploadVars

\* one iteration of a person frame loop that reads a frame showing one person
PersonFrame(box, sims) ==
    /\ mode \in PersonModes
    /\ pc = "loop"
    /\ ~stop_processing
    /\ frame_counter < video.len
    /\ LET r == SessionAssign(box, sims)
       IN  /\ person_registry' = r.reg
           /\ next_id' = next_id + r.made
           /\ saved' = saved \cup r.files
           /\ detection_counter' = detection_counter + 1
           /\ last' = IF mode = "detect"
                      THEN Outcome(box, r.pid, r.branch, frame_counter)
                      ELSE MatchOutcome(box, r.pid, r.branch, frame_counter, sims, known_faces)
    /\ frame_counter' = frame_counter + 1
    /\ UNCHANGED <<mode, library, known_faces>>
    /\ UNCHANGED paymentVars
    /\ UNCHANGED sessionVars
    /\ UNCHANGED uploadVars

\* one iteration of a person frame loop that reads a frame showing nobody
PersonEmptyFrame ==
    /\ mode \in PersonModes
    /\ pc = "loop"
    /\ ~stop_processing
    /\ frame_counter < video.len
    /\ frame_counter' = frame_counter + 1
    /\ UNCHANGED <<mode, person_registry, detection_counter, next_id, last,
                   library, saved, known_faces>>
    /\ UNCHANGED paymentVars
    /\ UNCHANGED sessionVars
    /\ UNCHANGED uploadVars

\* cap.read() fails at the end of the video: the completion is reported
PersonFinish ==
    /\ mode \in PersonModes
    /\ pc = "loop"
    /\ ~stop_processing
    /\ frame_counter = video.len
    /\ pc' = "done"
    /\ report' = "completed"
    /\ UNCHANGED <<stop_processing, processing_state, now, pending_processing>>
    /\ UNCHANGED personVars
    /\ UNCHANGED <<video, current_frame, tracked_centroids, payment_events,
                   filtered_events, first_cash_detected, first_card_detected,
                   cash_payments, card_payments, payment_type>>
    /\ UNCHANGED uploadVars

\* the stop flag is set while the frame loop runs
UserStop ==
    /\ pc = "loop"
    /\ ~stop_processing
    /\ stop_processing' = TRUE
    /\ UNCHANGED <<processing_state, now, pending_processing, report>>
    /\ UNCHANGED personVars
    /\ UNCHANGED paymentVars
    /\ UNCHANGED uploadVars

\* the loop leaves through the flag, the function reports a summary
StoppedWithSummary ==
    /\ pc = "loop"
    /\ stop_processing
    /\ pc' = "stopped"
    /\ stop_processing' = FALSE
    /\ report' = "completed"
    /\ UNCHANGED <<processing_state, now, pending_processing>>
    /\ UNCHANGED personVars
    /\ UNCHANGED <<video, current_frame, tracked_centroids, payment_events,
                   filtered_events, first_cash_detected, first_card_detected,
                   cash_payments, card_payments, payment_type>>
    /\ UNCHANGED uploadVars

\* the loop sees the flag at the top of an iteration and breaks; after the
\* loop the function warns, resets the flag and returns without a result
Stopped ==
    /\ pc = "loop"
    /\ stop_processing
    /\ pc' = "stopped"
    /\ stop_processing' = FALSE
    /\ report' = "stopped"
    /\ UNCHANGED <<processing_state, now, pending_processing>>
    /\ UNCHANGED personVars
    /\ UNCHANGED <<video, current_frame, tracked_centroids, payment_events,
                   filtered_events, first_cash_detected, first_card_detected,
                   cash_payments, card_payments, payment_type>>
    /\ UNCHANGED uploadVars

\* the process restarts while the frame loop runs: the session state and
\* the locals of the loop are gone, the files stay
Interrupt ==
    /\ pc = "loop"
    /\ pc' = "interrupted"
    /\ stop_processing' = FALSE
    /\ pending_processing' = "none"
    /\ person_registry' = <<>>
    /\ frame_counter' = 0
    /\ detection_counter' = 0
    /\ current_frame' = 0
    /\ tracked_centroids' = <<>>
    /\ payment_events' = <<>>
    /\ first_cash_detected' = FALSE
    /\ first_card_detected' = FALSE
    /\ cash_payments' = 0
    /\ card_payments' = 0
    /\ payment_type' = "None"
    /\ UNCHANGED <<mode, next_id, last, library, saved, known_faces, video,
                   filtered_events, processing_state, now, report>>
    /\ UNCHANGED uploadVars

\* check_for_interrupted_processing
Fresh(state, t) == state.saved /\ t - state.timestamp < FreshSeconds

\* a page load with no file in the uploader while no frame loop runs: a
\* fresh processing state becomes pending_processing and the session is
\* announced as resumed; the dispatch then reads pending['video_session_dir'],
\* a key the saved state does not have, and the run ends in a KeyError
PageLoad ==
    /\ pc \in {"done", "aborted", "stopped", "interrupted", "crashed", "failed"}
    /\ IF Fresh(processing_state, now)
       THEN /\ pending_processing' = "restored"
            /\ report' = "resuming"
            /\ pc' = "crashed"
       ELSE UNCHANGED <<pending_processing, report, pc>>
    /\ UNCHANGED <<stop_processing, processing_state, now>>
    /\ UNCHANGED personVars
    /\ UNCHANGED <<video, current_frame, tracked_centroids, payment_events,
                   filtered_events, first_cash_detected, first_card_detected,
                   cash_payments, card_payments, payment_type>>
    /\ UNCHANGED uploadVars

\* time passes
Tick ==
    /\ now + TickSeconds <= MaxClock
    /\ now' = now + TickSeconds
    /\ UNCHANGED <<stop_processing, processing_state, pending_processing, report>>
    /\ UNCHANGED personVars
    /\ UNCHANGED paymentVars
    /\ UNCHANGED uploadVars

\* detect_payments: model1(frame) or model2(frame) raises inside the try of
\* the loop body; the except warns and continues with the next frame, the
\* detections of this frame are not looked at
PayInferenceFails ==
    /\ mode = "payment"
    /\ pc = "loop"
    /\ ~stop_processing
    /\ current_frame < video.len
    /\ current_frame' = current_frame + 1
    /\ UNCHANGED <<video, pc, tracked_centroids, payment_events, filtered_events,
                   first_cash_detected, first_card_detected, cash_payments,
                   card_payments, payment_type>>
    /\ UNCHANGED sessionVars
    /\ UNCHANGED personVars
    /\ UNCHANGED uploadVars

\* detect_persons, identify_persons, mixed_detection_identification:
\* results = model(frame) stands in no try; what it raises leaves the frame
\* loop and the function, whose locals (the registry, the counters) are
\* gone, and ends the script run with the exception shown to the user
PersonInferenceFails ==
    /\ mode \in PersonModes
    /\ pc = "loop"
    /\ ~stop_processing
    /\ frame_counter < video.len
    /\ pc' = "failed"
    /\ report' = "exception"
    /\ person_registry' = <<>>
    /\ frame_counter' = 0
    /\ detection_counter' = 0
    /\ UNCHANGED <<mode, next_id, last, library, saved, known_faces>>
    /\ UNCHANGED <<stop_processing, processing_state, now, pending_processing>>
    /\ UNCHANGED <<video, current_frame, tracked_centroids, payment_events,
                   filtered_events, first_cash_detected, first_card_detected,
                   cash_payments, card_payments, payment_type>>
    /\ UNCHANGED uploadVars

InitSession ==
    /\ mode \in PersonModes \cup {"payment"}
    /\ person_registry = <<>>
    /\ frame_counter = 0
    /\ detection_counter = 0
    /\ next_id = 0
    /\ library \in (IF mode \in {"identify", "mixed"} THEN NewLibraries ELSE {{}})
    /\ last = IF mode \in {"identify", "mixed"}
              THEN MatchOutcome(BoxA, NoPid, "init", 0, [img \in library |-> 40], <<>>)
              ELSE Outcome(BoxA, NoPid, "init", 0)
    /\ saved = {}
    /\ known_faces \in
          (IF mode = "identify" THEN Orders(ListDetected(library))
           ELSE IF mode = "mixed"
           THEN Orders(KnownRefs(LoadKnownFaces(library, <<"s1">>, 1, <<>>)))
           ELSE {<<>>})
    /\ video \in (IF mode = "payment" THEN SessionVideos
                  ELSE {v \in SessionVideos : v.pattern = <<<<>>>>})
    /\ pc = "start"
    /\ current_frame = 0
    /\ tracked_centroids = <<>>
    /\ payment_events = <<>>
    /\ filtered_events = <<>>
    /\ first_cash_detected = FALSE
    /\ first_card_detected = FALSE
    /\ cash_payments = 0
    /\ card_payments = 0
    /\ payment_type = "None"
    /\ SessionIdle
    /\ UploadIdle

NextSession ==
    \/ PayStart
    \/ PayFrame
    \/ PayFinish
    \/ PersonStart
    \/ \E box \in {BoxA, BoxB}, sims \in [library -> SessionSims] : PersonFrame(box, sims)
    \/ PersonEmptyFrame
    \/ PersonFinish
    \/ PayInferenceFails
    \/ PersonInferenceFails
    \/ UserStop
    \/ Stopped
    \/ Interrupt
    \/ PageLoad
    \/ Tick

SpecSession == InitSession /\ [][NextSession]_vars

-----------------------------------------------------------------------------
(* Claims about the life of a session, checked under SpecSession *)

\* C17: Stopped is terminal: once the frame loop of a session has left
\* through the stop flag, no later page load restores the session as the
\* pending one, announces it as resumed or takes it out of Stopped, also
\* within 10 minutes of its saved processing state.
C17_Original ==
    [][pc = "stopped" =>
          /\ pc' = "stopped"
          /\ pending_processing' = pending_processing
          /\ report' = report]_vars

\* C18: a session interrupted in Processing by a restart, in any mode, has
\* a saved processing state; a page load less than 10 minutes after the
\* state was saved restores it and runs its frame loop again, a later page
\* load does not.
C18_Original ==
    [][/\ (pc = "loop" /\ pc' = "interrupted") => processing_state'.saved
       /\ (pc = "interrupted" /\ now' = now) =>
             IF Fresh(processing_state, now)
             THEN pending_processing' = "restored" /\ pc' = "loop"
             ELSE pc' = "interrupted"]_vars

\* C19: when the frame loop leaves through the stop flag, the session
\* reports no summary and no payment tally (the offline pass has not run and
\* nothing is reported as completed), the stop flag is false again, and the
\* reference images saved for earlier frames are still stored.
C19_StopDiscardsSummary ==
    [][(pc = "loop" /\ pc' = "stopped") =>
          /\ stop_processing
          /\ ~stop_processing'
          /\ report' = "stopped"
          /\ filtered_events' = <<>>
          /\ saved' = saved
          /\ person_registry' = person_registry]_vars

\* a detect session was stopped after it had stored a reference image
C19_Witness ==
    /\ mode = "detect"
    /\ pc = "stopped"
    /\ report = "stopped"
    /\ ~stop_processing
    /\ saved # {}
    /\ frame_counter < video.len

\* C20: a video that cannot be opened or reports zero frames aborts the
\* session before the frame loop in every mode: the session is never in
\* Processing and is never reported as completed.
C20_Original ==
    video.len = 0 => (pc \notin {"loop", "done"} /\ report # "completed")

-----------------------------------------------------------------------------
(* Detect mode on detections at the bounds of the proximity match *)

\* person detections examined in one video of near detections
MaxNearDetections == 4
\* last frame index of such a video
MaxNearFrame == 61

\* 10x10 boxes on one line whose centres are 0, 50, 51 and 100 px from the
\* centre of the first: 50 px is max_distance, and the second box is 50 px
\* from the first and from the last
NearBoxes == {Box(x, 0, x + 10, 10) : x \in {0, 50, 51, 100}}

NearDetect(box) ==
    /\ detection_counter < MaxNearDetections
    /\ DetectPerson(box)

\* max_frame_gap iterations in a row in which the detector reports no
\* person: each of them only adds 1 to frame_counter
GapFrames ==
    /\ mode = "detect"
    /\ frame_counter + max_frame_gap <= MaxNearFrame
    /\ frame_counter' = frame_counter + max_frame_gap
    /\ UNCHANGED <<mode, person_registry, detection_counter, next_id, last,
                   library, saved, known_faces>>
    /\ UNCHANGED paymentVars
    /\ UNCHANGED sessionVars
    /\ UNCHANGED uploadVars

\* one iteration more than that
StaleFrames ==
    /\ frame_counter + max_frame_gap + 1 <= MaxNearFrame
    /\ EmptyFrames

NextNear ==
    \/ \E box \in NearBoxes : NearDetect(box)
    \/ GapFrames
    \/ StaleFrames

SpecNear == InitDetect /\ [][NextNear]_vars

(* Claims about the proximity match, checked under SpecNear *)

\* C24: in detect mode, while the registry holds fewer than 6 Tracks, a
\* Detection that reaches the tracker is assigned to the Track of minimum
\* centre distance among the Tracks with frame_index - last_seen <=
\* max_frame_gap if and only if that distance is <= max_distance (both
\* bounds inclusive, the earliest-created Track on a tie); the assignment
\* sets the Track's box to the Detection's box, adds 1 to its appearance
\* count and sets last_seen to the current frame; otherwise a new Track of
\* appearance count 1 is created.
C24_ProximityAssignment ==
    [][(mode = "detect" /\ DetectionStep /\ Len(person_registry) < MaxTracks) =>
          LET reg == person_registry
              fresh == {i \in 1..Len(reg) : frame_counter - reg[i].last_seen <= max_frame_gap}
              t == IF fresh = {} THEN 0 ELSE FirstNearest(reg, fresh, last'.box)
          IN  IF t # 0 /\ box_distance4(last'.box, reg[t].box) <= 4 * max_distance * max_distance
              THEN /\ last'.branch = "proximity"
                   /\ last'.pid = reg[t].pid
                   /\ person_registry' = [reg EXCEPT ![t] =
                         [pid |-> @.pid, box |-> last'.box,
                          frame_count |-> @.frame_count + 1,
                          last_seen |-> frame_counter]]
              ELSE /\ last'.branch = "new"
                   /\ \A i \in 1..Len(reg) : reg[i].pid # last'.pid
                   /\ person_registry' = Append(reg,
                         [pid |-> last'.pid, box |-> last'.box,
                          frame_count |-> 1, last_seen |-> frame_counter])]_vars

\* a Detection exactly 50 px from each of two Tracks, both last seen exactly
\* 30 frames before, went to the Track created first
C24_Witness ==
    /\ mode = "detect"
    /\ last.branch = "proximity"
    /\ last.box = Box(50, 0, 60, 10)
    /\ Len(person_registry) = 2
    /\ person_registry[1].pid = last.pid
    /\ person_registry[1].box = last.box
    /\ person_registry[1].frame_count = 2
    /\ person_registry[1].last_seen = max_frame_gap
    /\ last.frame = max_frame_gap
    /\ person_registry[2].box = Box(100, 0, 110, 10)
    /\ person_registry[2].last_seen = 0
    /\ person_registry[2].frame_count = 1

(* Claims about the person summary, checked under SpecNear *)

\* total_frames of the videos of SpecNear: the frames 0 .. MaxNearFrame
NearTotalFrames == MaxNearFrame + 1

\* "First Seen (Frame)" of the summary row of a Track:
\* max(0, last_seen - min(frame_count, total_frames) + 1)
FirstSeen(track, total_frames) ==
    LET validated_frame_count ==
            IF track.frame_count <= total_frames THEN track.frame_count ELSE total_frames
        first == track.last_seen - validated_frame_count + 1
    IN  IF first >= 0 THEN first ELSE 0

\* C29: the First Seen (Frame) reported for a Track is the index of the
\* frame in which the Track was created, for every sequence of detections:
\* it is that index when the Track is created and no later step changes it.
C29_Original ==
    [][mode = "detect" =>
          \A i \in 1..Len(person_registry') :
              FirstSeen(person_registry'[i], NearTotalFrames) =
                  IF i > Len(person_registry)
                  THEN frame_counter
                  ELSE FirstSeen(person_registry[i], NearTotalFrames)]_vars

-----------------------------------------------------------------------------
(* The session count of identify mode, checked under SpecMatch *)

\* the session folders of one top-level directory that hold a folder of pid;
\* files are the frames this session has written so far
SessionFolders(top, pid, lib, files) ==
    {img.session : img \in {i \in lib : i.top = top /\ i.pid = pid}}
        \cup {CurrentSession : s \in {t \in files : t.top = top /\ t.pid = pid}}

\* count_person_sessions: one for every session folder under "Detected
\* people" that holds the person, one for every such folder under
\* "Identified people"
count_person_sessions(pid, lib, files) ==
    Cardinality(SessionFolders(DetectedTop, pid, lib, files))
        + Cardinality(SessionFolders(IdentifiedTop, pid, lib, files))

\* st.session_state.person_count[person_id] as a match assigns it, with the
\* disk as it is before save_person_frame; the summary reports this entry
PersonCount(pid, lib, files) == count_person_sessions(pid, lib, files) + 1

\* the distinct sessions in which the person has stored images
SessionsHolding(pid, lib, files) ==
    SessionFolders(DetectedTop, pid, lib, files)
        \cup SessionFolders(IdentifiedTop, pid, lib, files)

\* a detection of identify mode has just been matched to a known person
IdentifiedNow ==
    /\ mode = "identify"
    /\ detection_counter' = detection_counter + 1
    /\ last'.branch = "identified"

\* C30: in identify mode the session count of a matched person is the number
\* of distinct sessions in which the person has stored images, the current
\* session counted once, however often the person is matched in this session.
C30_Original ==
    [][IdentifiedNow =>
          PersonCount(last'.pid, library, saved)
              = Cardinality(SessionsHolding(last'.pid, library, saved'))]_vars

-----------------------------------------------------------------------------
(* The payment type before and after the offline pass *)

\* the frame loop of detect_payments reads on until cap.read() fails and the
\* function goes on to its end
SpecPaymentRuns == SpecPayment /\ WF_vars(NextPayment)

\* the payment_type the frame loop has set: the label of the first raw event
OnlineType(events) == IF events = <<>> THEN "None" ELSE LabelOf(events[1].type)

\* the report names another payment type than the frame loop had set
TypeChanged ==
    /\ mode = "payment"
    /\ pc = "done"
    /\ payment_type # OnlineType(payment_events)

\* C23 as stated: there is a sequence of payment detections for which the
\* payment_type reported after the offline merge pass differs from the
\* payment_type set during the frame loop: a run of detect_payments ends
\* with a changed payment type.
C23_Original == <>TypeChanged

\* C23 as amended: for every sequence of payment detections the
\* payment_type reported after the offline merge pass is the payment_type
\* set during the frame loop, the kind of the first raw event: the first raw
\* event is never merged away and no surviving event has a smaller frame
\* index.
C23_MergeKeepsType ==
    [][(mode = "payment" /\ pc = "loop" /\ pc' = "done") =>
          /\ payment_type = OnlineType(payment_events)
          /\ payment_type' = payment_type
          /\ payment_events # <<>> =>
                /\ filtered_events'[1] = payment_events[1]
                /\ \A i \in 1..Len(filtered_events') :
                      filtered_events'[1].frame <= filtered_events'[i].frame]_vars

\* cash and card events were registered in turn, the offline pass merged
\* some of each kind away, and the report names the kind seen first
C23_Witness ==
    /\ mode = "payment"
    /\ pc = "done"
    /\ \E i, j \in 1..Len(payment_events) :
          payment_events[i].type = "cash" /\ payment_events[j].type = "card"
    /\ Len(filtered_events) < Len(payment_events)
    /\ cash_payments >= 1
    /\ card_payments >= 1
    /\ payment_type = OnlineType(payment_events)

-----------------------------------------------------------------------------
(* Claims about the offline merge pass, checked under SpecPayment *)

\* two events of one kind less than 30 frames and less than 50 px in each
\* axis apart
SameWindow(a, b) ==
    /\ a.type = b.type
    /\ Abs(a.frame - b.frame) < 30
    /\ Abs(a.center[1] - b.center[1]) < 50
    /\ Abs(a.center[2] - b.center[2]) < 50

\* the raw events that the offline pass has merged away
MergedAway ==
    {i \in 1..Len(payment_events) :
        \A k \in 1..Len(filtered_events) : filtered_events[k] # payment_events[i]}

\* C25: after the offline merge pass no two surviving events of the same
\* kind have frame indices differing by less than 30 and centres differing
\* by less than 50 px in both axes; every merged-away event has a surviving
\* event of its kind within that window whose frame index is not larger
\* than its own.
C25_MergeWindow ==
    (mode = "payment" /\ pc = "done") =>
        /\ \A i, j \in 1..Len(filtered_events) :
              i # j => ~SameWindow(filtered_events[i], filtered_events[j])
        /\ \A i \in MergedAway :
              \E k \in 1..Len(filtered_events) :
                  /\ SameWindow(payment_events[i], filtered_events[k])
                  /\ filtered_events[k].frame <= payment_events[i].frame
        /\ \A k \in 1..Len(filtered_events) :
              \E i \in 1..Len(payment_events) : payment_events[i] = filtered_events[k]

\* two cash events at one place survived, 30 or more frames apart, and the
\* raw events between them were merged away
C25_Witness ==
    /\ mode = "payment"
    /\ pc = "done"
    /\ Len(filtered_events) = 2
    /\ filtered_events[1].type = "cash"
    /\ filtered_events[2].type = "cash"
    /\ filtered_events[1].center = filtered_events[2].center
    /\ Cardinality(MergedAway) >= 2

-----------------------------------------------------------------------------
(* Claims about the online rule, checked under SpecPayment *)

\* the raw events registered at the centre c, by their index
RegisteredAt(events, c) == {i \in 1..Len(events) : events[i].center = c}

\* the video shows one cash or card object above the confidence floor at
\* the same centre with the same confidence in every frame
SameInEveryFrame(v) ==
    /\ v.kind = "periodic"
    /\ Len(v.pattern) = 1
    /\ v.len >= 1
    /\ FedAt(v, 1) = {1}

\* C26 as stated: the centroid index also records the sightings that were
\* dropped, so an object detected at the same centre with the same
\* confidence in every frame registers exactly one raw event for as long as
\* it stays visible.
C26_Original ==
    (mode = "payment" /\ SameInEveryFrame(video) /\ current_frame >= 1) =>
        Len(payment_events) = 1

\* C26 as amended: the online rule drops a cash/card detection if and only
\* if the raw event registered last for its centre key is of the same class,
\* less than 15 frames old and of a confidence differing by less than 0.1; a
\* dropped sighting leaves the centroid index as it is. Otherwise a raw
\* event is registered and the index entry of the key is set to this
\* detection. Consequently an object detected at the same centre with the
\* same confidence in every frame registers one raw event every 15 frames:
\* in the frames 1, 16, 31, ...
C26_OnlineRule ==
    [][(mode = "payment" /\ pc = "loop" /\ current_frame' = current_frame + 1) =>
          LET frame == current_frame'
              dets == FrameAt(video, frame)
          IN  /\ FedAt(video, frame) = {} =>
                    payment_events' = payment_events /\ tracked_centroids' = tracked_centroids
              /\ FedAt(video, frame) = {1} =>
                    LET det == dets[1]
                        c == Center(det.box)
                        at == RegisteredAt(payment_events, c)
                        prev == payment_events[CHOOSE i \in at : \A j \in at : j <= i]
                        dropped ==
                            /\ at # {}
                            /\ prev.type = (IF det.cls = CashId THEN "cash" ELSE "card")
                            /\ frame - prev.frame < 15
                            /\ Abs(det.conf - prev.confidence) < 10
                    IN  IF dropped
                        THEN /\ payment_events' = payment_events
                             /\ tracked_centroids' = tracked_centroids
                        ELSE /\ payment_events' = Append(payment_events,
                                    Event(IF det.cls = CashId THEN "cash" ELSE "card",
                                          frame, det.conf, c))
                             /\ tracked_centroids'[center_key(c)] =
                                    [cls |-> det.cls, frame |-> frame, conf |-> det.conf]
              /\ SameInEveryFrame(video) =>
                    /\ Len(payment_events') = ((frame - 1) \div 15) + 1
                    /\ \A i \in 1..Len(payment_events') :
                          payment_events'[i].frame = 15 * (i - 1) + 1]_vars

\* the object seen in every frame at one centre with one confidence has
\* registered its second raw event in frame 16
C26_Witness ==
    /\ mode = "payment"
    /\ SameInEveryFrame(video)
    /\ current_frame = 16
    /\ Len(payment_events) = 2
    /\ payment_events[2].frame = 16
    /\ payment_events[2].center = payment_events[1].center
    /\ payment_events[2].confidence = payment_events[1].confidence

-----------------------------------------------------------------------------
(* Stale Tracks of detect mode and of mixed mode *)

\* person detections examined in one mixed session that is followed for
\* its stale Tracks
MaxStaleMixed == 3

StaleBoxes == {BoxA, BoxB, BoxC}

\* one person box of a mixed session, like or unlike the stored image
StaleMixedPerson(box, sims) ==
    /\ detection_counter < MaxStaleMixed
    /\ MixedStep(box, sims)

InitStale == InitDetect \/ InitNew

NextStale ==
    \/ \E box \in StaleBoxes : DetectPerson(box)
    \/ \E box \in StaleBoxes, sims \in [library -> SessionSims] : StaleMixedPerson(box, sims)
    \/ EmptyFrames

SpecStale == InitStale /\ [][NextStale]_vars

(* Claims about stale Tracks, checked under SpecStale *)

\* the Tracks of reg last seen more than max_frame_gap frames before frame f
StaleTracks(reg, f) == {i \in 1..Len(reg) : f - reg[i].last_seen > max_frame_gap}

\* C27 as stated: once a Track is stale (current_frame - last_seen exceeds
\* max_frame_gap) no later Detection is ever assigned to it: its box,
\* appearance count and last_seen never change again, and it stays in the
\* registry.
C27_Original ==
    [][\A i \in StaleTracks(person_registry, frame_counter) :
          /\ i <= Len(person_registry')
          /\ person_registry'[i] = person_registry[i]]_vars

\* C27 as amended: a stale Track is ignored by the proximity match and is
\* never removed from the registry; its box, appearance count and last_seen
\* change again only in two cases: in detect mode when the registry holds 6
\* Tracks and every one of them is stale, where the forced fallback assigns
\* the Detection to the nearest Track of the whole registry; and in mixed
\* mode when the Track is tagged existing and a Detection is matched to its
\* identity by similarity.
C27_StaleTracks ==
    [][\A i \in StaleTracks(person_registry, frame_counter) :
          /\ i <= Len(person_registry')
          /\ person_registry'[i].pid = person_registry[i].pid
          /\ person_registry'[i] # person_registry[i] =>
                /\ person_registry'[i] = [person_registry[i] EXCEPT
                                             !.box = last'.box,
                                             !.frame_count = @ + 1,
                                             !.last_seen = frame_counter]
                /\ last'.pid = person_registry[i].pid
                /\ IF mode = "detect"
                   THEN /\ Len(person_registry) = MaxTracks
                        /\ StaleTracks(person_registry, frame_counter) = 1..MaxTracks
                        /\ last'.branch = "forced_nearest"
                        /\ i = FirstNearest(person_registry, 1..MaxTracks, last'.box)
                   ELSE /\ person_registry[i].type = "existing"
                        /\ last'.branch = "existing"]_vars

\* a Detection at the place of a stale Track made a second Track there and
\* left the stale one as it was
C27_Witness ==
    /\ Len(person_registry) = 2
    /\ person_registry[1].box = person_registry[2].box
    /\ person_registry[1].last_seen = 0
    /\ person_registry[1].frame_count = 1
    /\ person_registry[2].last_seen = max_frame_gap + 1
    /\ last.branch = "new"
    /\ last.pid = person_registry[2].pid
    /\ last.box = person_registry[1].box

-----------------------------------------------------------------------------
(* The order of the frames in the registry and in the event log *)

\* a detect session on near detections or a payment session
InitOrder == InitDetect \/ InitPayment

NextOrder == NextNear \/ NextPayment

SpecOrder == InitOrder /\ [][NextOrder]_vars

\* events holds its events in non-decreasing frame index
FrameOrdered(events) ==
    \A i, j \in 1..Len(events) : i < j => events[i].frame <= events[j].frame

\* C28: within a session the frames are processed in increasing index
\* order: the frame index of either frame loop never goes back, across any
\* step each Track stays in the registry and its last_seen does not
\* decrease, and payment events are appended to the event log in
\* non-decreasing frame index.
C28_FrameOrder ==
    [][/\ frame_counter' >= frame_counter
       /\ current_frame' >= current_frame
       /\ \A i \in 1..Len(person_registry) :
             /\ i <= Len(person_registry')
             /\ person_registry'[i].pid = person_registry[i].pid
             /\ person_registry'[i].last_seen >= person_registry[i].last_seen
             /\ person_registry'[i].last_seen <= frame_counter'
       /\ Len(payment_events') >= Len(payment_events)
       /\ \A i \in 1..Len(payment_events) : payment_events'[i] = payment_events[i]
       /\ FrameOrdered(payment_events')
       /\ \A i \in 1..Len(payment_events') : payment_events'[i].frame <= current_frame']_vars

\* a Track created in frame 0 was seen again in frame 30 and in frame 60
C28_Witness ==
    /\ mode = "detect"
    /\ frame_counter = 2 * max_frame_gap
    /\ Len(person_registry) >= 1
    /\ person_registry[1].frame_count = 3
    /\ person_registry[1].last_seen = 2 * max_frame_gap
    /\ last.pid = person_registry[1].pid
    /\ last.branch = "proximity"

-----------------------------------------------------------------------------
(* Uploads and their routing to detect or identify mode: app.py *)

\* uploads followed in one behaviour
MaxUploads == 3

\* str(uuid.uuid4())[:8]: the session ids, each handed out once
UploadSessions == 1..MaxUploads

UsedSessions ==
    {img.session : img \in library} \cup {p[1] : p \in video_hashes}
        \cup {row.session : row \in cloud_sessions} \cup {upload.session}

\* existing_persons: the person folders under "Detected people"/<session>
\* that hold a first_detection.jpg; nothing writes a first_detection.jpg
\* under "Identified people"
ExistingPersons(lib) == {img.pid : img \in {i \in lib : i.top = DetectedTop}}

\* has_processed_data: the session has person rows in the cloud store, which
\* are written together with the person folders, or person folders
HasProcessedData(lib, session) == \E img \in lib : img.session = session

\* the start of a script run: when the cloud store is connected the hashes
\* of its sessions that have processed data are put into video_hashes
LoadSessions(vh, rows, lib, connected) ==
    IF connected
    THEN vh \cup {<<row.session, row.hash>> : row \in {r \in rows : HasProcessedData(lib, r.session)}}
    ELSE vh

\* video_hash in st.session_state.video_hashes.values()
HashKnown(vh, hash) == \E p \in vh : p[2] = hash

\* the dispatch of detect_identify: has_existing_data
RouteOf(vh, hash, lib) ==
    IF HashKnown(vh, hash) /\ ExistingPersons(lib) # {} THEN "identify" ELSE "detect"

\* a file is put into the uploader: the script run hashes it, hands out a
\* session id, saves the session row when the cloud store is connected and
\* sets pending_processing
UploadVideo(h, s) ==
    /\ pc \in {"idle", "done"}
    /\ s \notin UsedSessions
    /\ video_hashes' = LoadSessions(video_hashes, cloud_sessions, library, cloud)
    /\ upload' = [session |-> s, hash |-> h]
    /\ cloud_sessions' = IF cloud THEN cloud_sessions \cup {[session |-> s, hash |-> h]}
                         ELSE cloud_sessions
    /\ pc' = "uploaded"
    /\ mode' = "none"
    /\ pending_processing' = "upload"
    /\ UNCHANGED <<cloud, processed>>
    /\ UNCHANGED <<person_registry, frame_counter, detection_counter, next_id, last,
                   library, saved, known_faces>>
    /\ UNCHANGED <<video, current_frame, tracked_centroids, payment_events,
                   filtered_events, first_cash_detected, first_card_detected,
                   cash_payments, card_payments, payment_type>>
    /\ UNCHANGED <<stop_processing, processing_state, now, report>>

\* "Detect & Identify" is clicked: the script run decides between
\* identify_persons and detect_persons and enters the frame loop
Dispatch ==
    /\ pc = "uploaded"
    /\ LET vh == LoadSessions(video_hashes, cloud_sessions, library, cloud)
           route == RouteOf(vh, upload.hash, library)
       IN  /\ video_hashes' = vh
           /\ mode' = route
           /\ processed' = IF route = "detect" /\ processed[upload.hash] = "never"
                            THEN [processed EXCEPT ![upload.hash] = "started"]
                            ELSE processed
    /\ pc' = "loop"
    /\ UNCHANGED <<cloud, cloud_sessions, upload>>
    /\ UNCHANGED <<person_registry, frame_counter, detection_counter, next_id, last,
                   library, saved, known_faces>>
    /\ UNCHANGED <<video, current_frame, tracked_centroids, payment_events,
                   filtered_events, first_cash_detected, first_card_detected,
                   cash_payments, card_payments, payment_type>>
    /\ UNCHANGED sessionVars

\* the person folders a detect session leaves for the persons it has found
FoundPersons(session, k, found) ==
    IF found THEN {Img(DetectedTop, session, generate_person_id(k + 1), k + 1)} ELSE {}

\* detect_persons reads the video to its end and reports the completion;
\* the two lines that would record the hash after it are comments
DetectCompletes(found) ==
    /\ pc = "loop"
    /\ mode = "detect"
    /\ library' = library \cup FoundPersons(upload.session, next_id, found)
    /\ next_id' = IF found THEN next_id + 1 ELSE next_id
    /\ processed' = [processed EXCEPT ![upload.hash] = "completed"]
    /\ pc' = "done"
    /\ report' = "completed"
    /\ UNCHANGED <<cloud, video_hashes, cloud_sessions, upload>>
    /\ UNCHANGED <<mode, person_registry, frame_counter, detection_counter, last,
                   saved, known_faces>>
    /\ UNCHANGED <<video, current_frame, tracked_centroids, payment_events,
                   filtered_events, first_cash_detected, first_card_detected,
                   cash_payments, card_payments, payment_type>>
    /\ UNCHANGED <<stop_processing, processing_state, now, pending_processing>>

\* detect_persons leaves its frame loop before the end of the video
DetectBreaksOff(found) ==
    /\ pc = "loop"
    /\ mode = "detect"
    /\ library' = library \cup FoundPersons(upload.session, next_id, found)
    /\ next_id' = IF found THEN next_id + 1 ELSE next_id
    /\ pc' = "done"
    /\ report' = "stopped"
    /\ UNCHANGED uploadVars
    /\ UNCHANGED <<mode, person_registry, frame_counter, detection_counter, last,
                   saved, known_faces>>
    /\ UNCHANGED <<video, current_frame, tracked_centroids, payment_events,
                   filtered_events, first_cash_detected, first_card_detected,
                   cash_payments, card_payments, payment_type>>
    /\ UNCHANGED <<stop_processing, processing_state, now, pending_processing>>

\* identify_persons reads the video to its end
IdentifyCompletes ==
    /\ pc = "loop"
    /\ mode = "identify"
    /\ pc' = "done"
    /\ report' = "completed"
    /\ UNCHANGED uploadVars
    /\ UNCHANGED personVars
    /\ UNCHANGED <<video, current_frame, tracked_centroids, payment_events,
                   filtered_events, first_cash_detected, first_card_detected,
                   cash_payments, card_payments, payment_type>>
    /\ UNCHANGED <<stop_processing, processing_state, now, pending_processing>>

\* a new browser session or a restart of the process: st.session_state is
\* empty again, line 448 sets video_hashes to {} before the test that would
\* read video_hashes.json, the folders and the cloud store stay
NewBrowserSession ==
    /\ pc \in {"idle", "done"}
    /\ video_hashes' = LoadSessions({}, cloud_sessions, library, cloud)
    /\ upload' = NoUpload
    /\ pc' = "idle"
    /\ mode' = "none"
    /\ UNCHANGED <<cloud, cloud_sessions, processed>>
    /\ UNCHANGED <<person_registry, frame_counter, detection_counter, next_id, last,
                   library, saved, known_faces>>
    /\ UNCHANGED <<video, current_frame, tracked_centroids, payment_events,
                   filtered_events, first_cash_detected, first_card_detected,
                   cash_payments, card_payments, payment_type>>
    /\ UNCHANGED sessionVars

InitUpload ==
    /\ mode = "none"
    /\ person_registry = <<>>
    /\ frame_counter = 0
    /\ detection_counter = 0
    /\ next_id = 0
    /\ last = Outcome(BoxA, NoPid, "init", 0)
    /\ library = {}
    /\ saved = {}
    /\ known_faces = <<>>
    /\ PaymentIdle
    /\ stop_processing = FALSE
    /\ processing_state = NoState
    /\ now = 0
    /\ pending_processing = "none"
    /\ report = "none"
    /\ cloud \in BOOLEAN
    /\ video_hashes = {}
    /\ cloud_sessions = {}
    /\ upload = NoUpload
    /\ processed = [h \in VideoHashes |-> "never"]

NextUpload ==
    \/ \E h \in VideoHashes, s \in UploadSessions : UploadVideo(h, s)
    \/ Dispatch
    \/ \E found \in BOOLEAN : DetectCompletes(found)
    \/ \E found \in BOOLEAN : DetectBreaksOff(found)
    \/ IdentifyCompletes
    \/ NewBrowserSession

SpecUpload == InitUpload /\ [][NextUpload]_vars

(* Claims about the routing of uploads, checked under SpecUpload *)

\* C22: the content hash of an upload is a dedup key: once detect mode has
\* processed a video to completion, a later upload of the same bytes is
\* recognised as already processed and is routed to identification when
\* person records exist; a video whose hash detect mode has never processed
\* is routed to detection.
C22_Original ==
    [][(pc = "uploaded" /\ pc' = "loop") =>
          /\ (processed[upload.hash] = "completed" /\ ExistingPersons(library) # {})
                => mode' = "identify"
          /\ processed[upload.hash] = "never" => mode' = "detect"]_vars

-----------------------------------------------------------------------------
(* Claims about a failing detector call, checked under SpecSession *)

\* this step is an iteration of a frame loop in which the detector call raised
InferenceFailure == PayInferenceFails \/ PersonInferenceFails

\* C21: a failure of the detector call on one frame never aborts the
\* session, in any mode: the frame is skipped, the frame loop goes on with
\* the next frame, and the Tracks and payment events recorded for earlier
\* frames are kept.
C21_Original ==
    [][InferenceFailure =>
          /\ pc' = "loop"
          /\ person_registry' = person_registry
          /\ payment_events' = payment_events
          /\ report' = report]_vars

=============================================================================
